---- MODULE Spec2Model ----
(***************************************************************************)
(* Model of the Linear tracker plugin (LinearTrackerPlugin) and of the     *)
(* part of the Linear service it talks to through LinearApiClient.         *)
(*                                                                         *)
(* Engine state: client, ready, projectId, teamId, userId, taskCache,      *)
(* stateCache, lastSyncedTasks.  Remote state: issues, workflow, clock.    *)
(* pending: the responses of the remote that are on their way to an        *)
(* operation awaiting them.                                                *)
(* Every public operation is one action; each remote call it makes may     *)
(* fail (the call's index is in the set `fails`), which is how transport   *)
(* failures, GraphQL errors and rejected mutations reach the plugin: as an *)
(* exception thrown by the client method.  `last` records the operation    *)
(* that produced the current state: its arguments, what it returned,       *)
(* whether it raised, and the remote calls it issued.                      *)
(***************************************************************************)
EXTENDS Integers, Sequences, FiniteSets, TLC

VARIABLES client, ready, projectId, teamId, userId,
          taskCache, stateCache, lastSyncedTasks,
          issues, workflow, clock, last, pending

engineVars == <<client, ready, projectId, teamId, userId,
                taskCache, stateCache, lastSyncedTasks>>
remoteVars == <<issues, workflow, clock>>
vars == <<client, ready, projectId, teamId, userId,
          taskCache, stateCache, lastSyncedTasks,
          issues, workflow, clock, last, pending>>

----------------------------------------------------------------------------
(* Bounds and value domains *)

\* Largest value of the remote clock: bounds the number of remote changes.
MaxTime == 2

TaskIds == {"i1", "i2"}
TeamIds == {"team1"}
ViewerId == "u1"
OtherUsers == {"u2"}
Titles == {"A", "B"}
Descriptions == {"undefined", "d1"}

\* undefined / null of a string-valued field.
NoVal == "undefined"
\* A key that is not part of an update input at all.
Absent == "absent"
\* undefined in place of a task, a baseline entry, a conflict, a state list.
NoTask == [none |-> TRUE]

LinearStateType == {"backlog", "unstarted", "started", "completed", "canceled"}
TrackerTaskStatus == {"open", "in_progress", "blocked", "completed", "cancelled"}

\* Workflow states of the team, as the remote may have them configured.
SBacklog == [id |-> "s_back", type |-> "backlog"]
STodo == [id |-> "s_todo", type |-> "unstarted"]
SProg == [id |-> "s_prog", type |-> "started"]
SReview == [id |-> "s_rev", type |-> "started"]
SDone == [id |-> "s_done", type |-> "completed"]
SCancel == [id |-> "s_canc", type |-> "canceled"]

\* A workflow with the states the plugin looks up, and one that has no
\* unstarted, no started and no completed state.
Workflows == { <<STodo, SProg, SDone>>, <<SBacklog, SCancel>> }

\* Workflows a team is reconfigured between: two states of one type, a
\* backlog state ahead of the unstarted one, another order of the states.
TeamWorkflows ==
  { <<SBacklog, STodo, SProg, SReview, SDone>>,
    <<STodo, SReview, SProg, SDone>>,
    <<SBacklog, SCancel>> }

EmailOf(uid) == IF uid = NoVal THEN NoVal ELSE uid \o "@x"

RECURSIVE SeqToSet(_)
SeqToSet(s) == IF s = <<>> THEN {} ELSE {Head(s)} \cup SeqToSet(Tail(s))

----------------------------------------------------------------------------
(* Helper functions *)

\* Mutant of mapStateToStatus: a type that is not known maps to blocked.
mapStateToStatusStrict(stateType) ==
  CASE stateType = "backlog" -> "open"
    [] stateType = "unstarted" -> "open"
    [] stateType = "started" -> "in_progress"
    [] stateType = "completed" -> "completed"
    [] stateType = "canceled" -> "cancelled"
    [] OTHER -> "blocked"

mapStateToStatus(stateType) ==
  CASE stateType = "backlog" -> "open"
    [] stateType = "unstarted" -> "open"
    [] stateType = "started" -> "in_progress"
    [] stateType = "completed" -> "completed"
    [] stateType = "canceled" -> "cancelled"
    [] OTHER -> "open"

\* Mutant of mapStatusToStateType: open is sent back to the backlog.
mapStatusToBacklog(status) ==
  CASE status = "open" -> "backlog"
    [] status = "in_progress" -> "started"
    [] status = "completed" -> "completed"
    [] status = "cancelled" -> "canceled"
    [] status = "blocked" -> "started"
    [] OTHER -> "unstarted"

mapStatusToStateType(status) ==
  CASE status = "open" -> "unstarted"
    [] status = "in_progress" -> "started"
    [] status = "completed" -> "completed"
    [] status = "cancelled" -> "canceled"
    [] status = "blocked" -> "started"
    [] OTHER -> "unstarted"

Min(a, b) == IF a < b THEN a ELSE b
Max(a, b) == IF a > b THEN a ELSE b

\* Mutant of mapPriority: the result is not clamped from above.
mapPriorityUnclamped(linearPriority) ==
  IF linearPriority = 0 THEN 2 ELSE Max(0, linearPriority - 1)

mapPriority(linearPriority) ==
  IF linearPriority = 0 THEN 2 ELSE Min(4, Max(0, linearPriority - 1))

\* labels.some(l => l.toLowerCase() === 'epic'); the label names of the model
\* that lower-case to 'epic' are listed.
IsEpicLabel(l) == l \in {"epic", "Epic", "EPIC"}

issueToTask(issue) ==
  [ id |-> issue.id,
    title |-> issue.identifier \o ": " \o issue.title,
    status |-> mapStateToStatus(issue.state.type),
    priority |-> mapPriority(issue.priority),
    description |-> issue.description,
    labels |-> issue.labels,
    type |-> IF \E i \in 1..Len(issue.labels) : IsEpicLabel(issue.labels[i])
             THEN "epic" ELSE "task",
    parentId |-> issue.parent,
    assignee |-> EmailOf(issue.assignee),
    createdAt |-> issue.createdAt,
    updatedAt |-> issue.updatedAt,
    stateId |-> issue.state.id ]

----------------------------------------------------------------------------
(* Task filter engine *)

\* A TaskFilter is a record that has the keys the caller set and no others;
\* status, priority, type, labels and excludeIds hold sets.  NoFilter: the
\* filter argument is undefined.
NoFilter == [none |-> TRUE]

Has(rec, key) == key \in DOMAIN rec

RECURSIVE FindById(_, _)
FindById(tasks, id) ==
  IF tasks = <<>> THEN NoTask
  ELSE IF Head(tasks).id = id THEN Head(tasks) ELSE FindById(Tail(tasks), id)

\* Mutant of checkTaskReady: a dependency that is not in the set blocks.
checkTaskReadyStrict(task, allTasks) ==
  IF ~Has(task, "dependsOn") THEN TRUE
  ELSE IF task.dependsOn = <<>> THEN TRUE
  ELSE \A i \in 1..Len(task.dependsOn) :
         LET depTask == FindById(allTasks, task.dependsOn[i])
         IN depTask # NoTask /\ depTask.status \in {"completed", "cancelled"}

checkTaskReady(task, allTasks) ==
  IF ~Has(task, "dependsOn") THEN TRUE
  ELSE IF task.dependsOn = <<>> THEN TRUE
  ELSE \A i \in 1..Len(task.dependsOn) :
         LET depTask == FindById(allTasks, task.dependsOn[i])
         IN depTask = NoTask \/ depTask.status \in {"completed", "cancelled"}

\* result.slice(n) and result.slice(0, n)
SliceFrom(s, n) == IF n >= Len(s) THEN <<>> ELSE SubSeq(s, n + 1, Len(s))
SliceTo(s, n) == IF n >= Len(s) THEN s ELSE SubSeq(s, 1, n)

\* Mutant of filterTasks: a task carrying any one of the labels passes.
filterTasksAnyLabel(tasks, filter) ==
  IF filter = NoFilter THEN tasks
  ELSE
    LET inStatus(t) == t.status \in filter.status
        hasLabels(t) == filter.labels \cap SeqToSet(t.labels) # {}
        inPriority(t) == t.priority \in filter.priority
        ofParent(t) == t.parentId = filter.parentId
        ofAssignee(t) == t.assignee = filter.assignee
        inType(t) == t.type \in filter.type
        notExcluded(t) == t.id \notin filter.excludeIds
        isReady(t) == checkTaskReady(t, tasks)
        r1 == IF Has(filter, "status") THEN SelectSeq(tasks, inStatus) ELSE tasks
        r2 == IF Has(filter, "labels") /\ filter.labels # {}
              THEN SelectSeq(r1, hasLabels) ELSE r1
        r3 == IF Has(filter, "priority") THEN SelectSeq(r2, inPriority) ELSE r2
        r4 == IF Has(filter, "parentId") /\ filter.parentId # ""
              THEN SelectSeq(r3, ofParent) ELSE r3
        r5 == IF Has(filter, "assignee") /\ filter.assignee # ""
              THEN SelectSeq(r4, ofAssignee) ELSE r4
        r6 == IF Has(filter, "type") THEN SelectSeq(r5, inType) ELSE r5
        r7 == IF Has(filter, "excludeIds") /\ filter.excludeIds # {}
              THEN SelectSeq(r6, notExcluded) ELSE r6
        r8 == IF Has(filter, "ready") /\ filter.ready
              THEN SelectSeq(r7, isReady) ELSE r7
        r9 == IF Has(filter, "offset") /\ filter.offset > 0
              THEN SliceFrom(r8, filter.offset) ELSE r8
    IN IF Has(filter, "limit") /\ filter.limit > 0
       THEN SliceTo(r9, filter.limit) ELSE r9

\* Mutant of filterTasks: readiness is judged against the tasks left by the
\* other criteria.
filterTasksReadyAmongLeft(tasks, filter) ==
  IF filter = NoFilter THEN tasks
  ELSE
    LET inStatus(t) == t.status \in filter.status
        hasLabels(t) == filter.labels \subseteq SeqToSet(t.labels)
        inPriority(t) == t.priority \in filter.priority
        ofParent(t) == t.parentId = filter.parentId
        ofAssignee(t) == t.assignee = filter.assignee
        inType(t) == t.type \in filter.type
        notExcluded(t) == t.id \notin filter.excludeIds
        r1 == IF Has(filter, "status") THEN SelectSeq(tasks, inStatus) ELSE tasks
        r2 == IF Has(filter, "labels") /\ filter.labels # {}
              THEN SelectSeq(r1, hasLabels) ELSE r1
        r3 == IF Has(filter, "priority") THEN SelectSeq(r2, inPriority) ELSE r2
        r4 == IF Has(filter, "parentId") /\ filter.parentId # ""
              THEN SelectSeq(r3, ofParent) ELSE r3
        r5 == IF Has(filter, "assignee") /\ filter.assignee # ""
              THEN SelectSeq(r4, ofAssignee) ELSE r4
        r6 == IF Has(filter, "type") THEN SelectSeq(r5, inType) ELSE r5
        r7 == IF Has(filter, "excludeIds") /\ filter.excludeIds # {}
              THEN SelectSeq(r6, notExcluded) ELSE r6
        isReady(t) == checkTaskReady(t, r7)
        r8 == IF Has(filter, "ready") /\ filter.ready
              THEN SelectSeq(r7, isReady) ELSE r7
        r9 == IF Has(filter, "offset") /\ filter.offset > 0
              THEN SliceFrom(r8, filter.offset) ELSE r8
    IN IF Has(filter, "limit") /\ filter.limit > 0
       THEN SliceTo(r9, filter.limit) ELSE r9

filterTasks(tasks, filter) ==
  IF filter = NoFilter THEN tasks
  ELSE
    LET inStatus(t) == t.status \in filter.status
        hasLabels(t) == filter.labels \subseteq SeqToSet(t.labels)
        inPriority(t) == t.priority \in filter.priority
        ofParent(t) == t.parentId = filter.parentId
        ofAssignee(t) == t.assignee = filter.assignee
        inType(t) == t.type \in filter.type
        notExcluded(t) == t.id \notin filter.excludeIds
        isReady(t) == checkTaskReady(t, tasks)
        r1 == IF Has(filter, "status") THEN SelectSeq(tasks, inStatus) ELSE tasks
        r2 == IF Has(filter, "labels") /\ filter.labels # {}
              THEN SelectSeq(r1, hasLabels) ELSE r1
        r3 == IF Has(filter, "priority") THEN SelectSeq(r2, inPriority) ELSE r2
        r4 == IF Has(filter, "parentId") /\ filter.parentId # ""
              THEN SelectSeq(r3, ofParent) ELSE r3
        r5 == IF Has(filter, "assignee") /\ filter.assignee # ""
              THEN SelectSeq(r4, ofAssignee) ELSE r4
        r6 == IF Has(filter, "type") THEN SelectSeq(r5, inType) ELSE r5
        r7 == IF Has(filter, "excludeIds") /\ filter.excludeIds # {}
              THEN SelectSeq(r6, notExcluded) ELSE r6
        r8 == IF Has(filter, "ready") /\ filter.ready
              THEN SelectSeq(r7, isReady) ELSE r7
        r9 == IF Has(filter, "offset") /\ filter.offset > 0
              THEN SliceFrom(r8, filter.offset) ELSE r8
    IN IF Has(filter, "limit") /\ filter.limit > 0
       THEN SliceTo(r9, filter.limit) ELSE r9

\* { ...filter, status: ['open', 'in_progress'], ready: true }
NextTaskFilter(filter) ==
  LET keys == (IF filter = NoFilter THEN {} ELSE DOMAIN filter)
                \cup {"status", "ready"}
  IN [k \in keys |->
        IF k = "status" THEN {"open", "in_progress"}
        ELSE IF k = "ready" THEN TRUE
        ELSE filter[k]]

\* tasks.sort((a, b) => a.priority - b.priority): the sort is stable.
RECURSIVE InsertByPriority(_, _)
InsertByPriority(sorted, t) ==
  IF sorted = <<>> THEN <<t>>
  ELSE IF Head(sorted).priority <= t.priority
  THEN <<Head(sorted)>> \o InsertByPriority(Tail(sorted), t)
  ELSE <<t>> \o sorted

RECURSIVE SortByPriority(_)
SortByPriority(tasks) ==
  IF tasks = <<>> THEN <<>>
  ELSE InsertByPriority(SortByPriority(SubSeq(tasks, 1, Len(tasks) - 1)),
                        tasks[Len(tasks)])

\* tasks.find(t => t.status === 'in_progress')
RECURSIVE FindInProgress(_)
FindInProgress(tasks) ==
  IF tasks = <<>> THEN NoTask
  ELSE IF Head(tasks).status = "in_progress" THEN Head(tasks)
  ELSE FindInProgress(Tail(tasks))

----------------------------------------------------------------------------
(* The remote service behind LinearApiClient *)

\* The issue as the remote holds it at the start, in the first state of
\* the team's workflow.
InitialIssue(id, states) ==
  [ id |-> id,
    identifier |-> IF id = "i1" THEN "PIC-1" ELSE "PIC-2",
    title |-> "A",
    description |-> NoVal,
    priority |-> IF id = "i1" THEN 3 ELSE 1,
    state |-> states[1],
    labels |-> IF id = "i1" THEN <<"ralph-tui">> ELSE <<"ralph-tui", "Epic">>,
    assignee |-> NoVal,
    parent |-> NoVal,
    createdAt |-> "t0",
    updatedAt |-> 0,
    listed |-> TRUE ]

\* getIssue / getIssuesByLabel select every field of the issue.  listed:
\* whether the issue is in the configured project (it carries the tracked
\* label throughout).
FetchedIssue(id) == issues[id]

\* The order in which getIssuesByLabel returns the issues it returns.
IdOrder == <<"i1", "i2">>

RECURSIVE SelectListed(_)
SelectListed(ids) ==
  IF ids = <<>> THEN <<>>
  ELSE (IF Head(ids) \in DOMAIN issues /\ issues[Head(ids)].listed
        THEN <<FetchedIssue(Head(ids))>> ELSE <<>>)
       \o SelectListed(Tail(ids))

getIssuesByLabel == SelectListed(IdOrder)

\* The getEpics query selects neither assignee nor parent; it returns the
\* issues of the project labelled "epic" or "Epic".
EpicResponse(issue) == [issue EXCEPT !.assignee = NoVal, !.parent = NoVal]

RECURSIVE SelectEpics(_)
SelectEpics(iss) ==
  IF iss = <<>> THEN <<>>
  ELSE (IF SeqToSet(Head(iss).labels) \cap {"epic", "Epic"} # {}
        THEN <<EpicResponse(Head(iss))>> ELSE <<>>)
       \o SelectEpics(Tail(iss))

getEpics == SelectEpics(SelectListed(IdOrder))

\* The issueUpdate mutation selects neither parent nor createdAt.
UpdateResponse(issue) == [issue EXCEPT !.parent = NoVal, !.createdAt = NoVal]

StateOfId(states, sid) ==
  IF \E i \in 1..Len(states) : states[i].id = sid
  THEN states[CHOOSE i \in 1..Len(states) : states[i].id = sid]
  ELSE NoTask

\* The issue after the remote applied an IssueUpdateInput at time t.
ApplyInput(issue, input, t) ==
  [issue EXCEPT
     !.state = IF input.stateId \in {Absent, NoVal} THEN @
               ELSE StateOfId(workflow, input.stateId),
     !.assignee = IF input.assigneeId \in {Absent, NoVal} THEN @
                  ELSE input.assigneeId,
     !.description = IF input.description = Absent THEN @
                     ELSE input.description,
     !.updatedAt = t]

\* The remote rejects an update that names a state it does not have.
InputAccepted(input) ==
  input.stateId \in {Absent, NoVal} \/ StateOfId(workflow, input.stateId) # NoTask

----------------------------------------------------------------------------
(* Records of remote calls and of the last operation *)

\* A call of a LinearApiClient method; ok: it returned (it did not throw).
CallGetViewer(ok) == [kind |-> "getViewer", ok |-> ok]
CallGetStates(team, ok) == [kind |-> "getStates", team |-> team, ok |-> ok]
CallGetIssue(id, ok) == [kind |-> "getIssue", id |-> id, ok |-> ok]
CallGetIssuesByLabel(ok) == [kind |-> "getIssuesByLabel", ok |-> ok]
CallGetEpics(ok) == [kind |-> "getEpics", ok |-> ok]
CallUpdateIssue(id, input, ok) ==
  [kind |-> "updateIssue", id |-> id, input |-> input, ok |-> ok]
CallAddComment(id, ok) == [kind |-> "addComment", id |-> id, ok |-> ok]

Input(stateId, assigneeId, description) ==
  [stateId |-> stateId, assigneeId |-> assigneeId, description |-> description]

\* No operation is running and the last result has been taken.
Idle == [op |-> "none"]

\* The engine's stores and the remote issues as an operation finds them.
Pre == [cache |-> taskCache, base |-> lastSyncedTasks, issues |-> issues]

LastOf(op, id, arg, ret, raised, calls, conflict) ==
  [op |-> op, id |-> id, arg |-> arg, ret |-> ret, raised |-> raised,
   calls |-> calls, conflict |-> conflict, pre |-> Pre]

----------------------------------------------------------------------------
(* initialize, dispose *)

InitOver(ids, workflows) ==
  /\ client = FALSE
  /\ ready = FALSE
  /\ projectId = ""
  /\ teamId = ""
  /\ userId = ""
  /\ taskCache = [id \in TaskIds |-> NoTask]
  /\ stateCache = [t \in TeamIds |-> NoTask]
  /\ lastSyncedTasks = [id \in TaskIds |-> NoTask]
  /\ workflow \in workflows
  /\ issues = [id \in ids |-> InitialIssue(id, workflow)]
  /\ clock = 0
  /\ last = Idle
  /\ pending = {}

InitWith(ids) == InitOver(ids, Workflows)

\* The plugin as constructed, and a remote that holds one tracked issue.
Init == InitWith({"i1"})

\* initialize(config): apiKey is whether a key is configured, viewerOk whether
\* the getViewer call succeeds.  Called on a plugin that has no client.
Initialize(apiKey, cfgProject, cfgTeam, viewerOk) ==
  /\ last = Idle
  /\ ~client
  /\ IF ~apiKey
     THEN /\ ready' = FALSE
          /\ UNCHANGED <<client, projectId, teamId, userId>>
          /\ last' = LastOf("initialize", NoVal, NoVal, NoTask, FALSE, <<>>, NoTask)
     ELSE /\ client' = TRUE
          /\ projectId' = cfgProject
          /\ teamId' = cfgTeam
          /\ IF viewerOk
             THEN userId' = ViewerId /\ ready' = TRUE
             ELSE userId' = userId /\ ready' = FALSE
          /\ last' = LastOf("initialize", NoVal, NoVal, NoTask, FALSE,
                            <<CallGetViewer(viewerOk)>>, NoTask)
  /\ UNCHANGED <<taskCache, stateCache, lastSyncedTasks>>
  /\ UNCHANGED remoteVars
  /\ UNCHANGED pending

\* Mutant of Dispose: the task cache is not cleared.
DisposeKeepsCache ==
  /\ last = Idle
  /\ ready' = FALSE
  /\ client' = FALSE
  /\ stateCache' = [t \in TeamIds |-> NoTask]
  /\ lastSyncedTasks' = [id \in TaskIds |-> NoTask]
  /\ last' = LastOf("dispose", NoVal, NoVal, NoTask, FALSE, <<>>, NoTask)
  /\ UNCHANGED <<projectId, teamId, userId, taskCache>>
  /\ UNCHANGED remoteVars
  /\ UNCHANGED pending

Dispose ==
  /\ last = Idle
  /\ ready' = FALSE
  /\ client' = FALSE
  /\ taskCache' = [id \in TaskIds |-> NoTask]
  /\ stateCache' = [t \in TeamIds |-> NoTask]
  /\ lastSyncedTasks' = [id \in TaskIds |-> NoTask]
  /\ last' = LastOf("dispose", NoVal, NoVal, NoTask, FALSE, <<>>, NoTask)
  /\ UNCHANGED <<projectId, teamId, userId>>
  /\ UNCHANGED remoteVars
  /\ UNCHANGED pending

----------------------------------------------------------------------------
(* Edits made to the remote by somebody else *)

\* Another user changes one field of an issue (field "updatedAt": a change of
\* something the plugin does not watch).  bump: whether the remote's
\* updatedAt moves with the change.
ExternalEdit(id, field, val, bump) ==
  /\ last = Idle
  /\ clock < MaxTime
  /\ clock' = clock + 1
  /\ val # issues[id][field]
  /\ issues' = [issues EXCEPT ![id] =
        [[@ EXCEPT ![field] = val] EXCEPT !.updatedAt = IF bump THEN clock + 1 ELSE @]]
  /\ last' = Idle
  /\ UNCHANGED engineVars
  /\ UNCHANGED <<workflow, pending>>

\* The team's workflow is reconfigured at the remote; an issue whose state
\* the new workflow does not have is moved to its first state.
ReconfigureWorkflow(states) ==
  /\ last = Idle
  /\ clock < MaxTime
  /\ clock' = clock + 1
  /\ states # workflow
  /\ workflow' = states
  /\ issues' = [id \in DOMAIN issues |->
        IF StateOfId(states, issues[id].state.id) # NoTask THEN issues[id]
        ELSE [issues[id] EXCEPT !.state = states[1], !.updatedAt = clock + 1]]
  /\ last' = Idle
  /\ UNCHANGED engineVars
  /\ UNCHANGED pending

----------------------------------------------------------------------------
(* Workflow-state resolver *)

\* Mutant of getTeamStates: the memo is not consulted.
getTeamStatesNoMemo(failed) ==
  IF ~client \/ teamId = ""
  THEN [threw |-> FALSE, states |-> <<>>, memo |-> stateCache, calls |-> <<>>]
  ELSE IF failed
  THEN [threw |-> TRUE, states |-> <<>>, memo |-> stateCache,
        calls |-> <<CallGetStates(teamId, FALSE)>>]
  ELSE [threw |-> FALSE, states |-> workflow,
        memo |-> [stateCache EXCEPT ![teamId] = [list |-> workflow]],
        calls |-> <<CallGetStates(teamId, TRUE)>>]

\* getTeamStates(): failed says whether the getStates call, if one is made,
\* throws.  states: the list returned; memo: stateCache afterwards.
getTeamStates(failed) ==
  IF ~client \/ teamId = ""
  THEN [threw |-> FALSE, states |-> <<>>, memo |-> stateCache, calls |-> <<>>]
  ELSE IF stateCache[teamId] # NoTask
  THEN [threw |-> FALSE, states |-> stateCache[teamId].list, memo |-> stateCache,
        calls |-> <<>>]
  ELSE IF failed
  THEN [threw |-> TRUE, states |-> <<>>, memo |-> stateCache,
        calls |-> <<CallGetStates(teamId, FALSE)>>]
  ELSE [threw |-> FALSE, states |-> workflow,
        memo |-> [stateCache EXCEPT ![teamId] = [list |-> workflow]],
        calls |-> <<CallGetStates(teamId, TRUE)>>]

\* states.find(s => s.type === targetType)?.id
FirstOfType(states, targetType) ==
  IF \E i \in 1..Len(states) : states[i].type = targetType
  THEN LET i == CHOOSE i \in 1..Len(states) :
                  /\ states[i].type = targetType
                  /\ \A j \in 1..(i - 1) : states[j].type # targetType
       IN states[i].id
  ELSE NoVal

findStateByType(targetType, failed) ==
  LET r == getTeamStates(failed)
  IN [threw |-> r.threw, id |-> FirstOfType(r.states, targetType),
      memo |-> r.memo, calls |-> r.calls]

\* client.updateIssue(id, input) at the remote: failed says whether the call
\* throws for a reason of its own (transport failure, or success = false).
updateIssue(id, input, failed) ==
  IF failed \/ ~InputAccepted(input)
  THEN [threw |-> TRUE, issue |-> NoTask, issues |-> issues, clock |-> clock,
        calls |-> <<CallUpdateIssue(id, input, FALSE)>>]
  ELSE LET new == ApplyInput(issues[id], input, clock + 1)
       IN [threw |-> FALSE, issue |-> UpdateResponse(new),
           issues |-> [issues EXCEPT ![id] = new], clock |-> clock + 1,
           calls |-> <<CallUpdateIssue(id, input, TRUE)>>]

----------------------------------------------------------------------------
(* Outcome of an operation: what it returns, whether it raised, the remote
   calls it issued and the engine and remote state it leaves. *)

Outcome(ret, raised, calls, cache, base, memo, iss, clk) ==
  [ret |-> ret, raised |-> raised, calls |-> calls, cache |-> cache,
   base |-> base, memo |-> memo, issues |-> iss, clock |-> clk]

\* An outcome that changes nothing.
Quiet(ret, calls) ==
  Outcome(ret, FALSE, calls, taskCache, lastSyncedTasks, stateCache, issues, clock)

\* The step of an operation with outcome e; conflict: what the operation's
\* detectConflict call found, if it made one.
Apply(e, op, id, arg, conflict) ==
  /\ last = Idle
  /\ e.clock <= MaxTime
  /\ taskCache' = e.cache
  /\ lastSyncedTasks' = e.base
  /\ stateCache' = e.memo
  /\ issues' = e.issues
  /\ clock' = e.clock
  /\ last' = LastOf(op, id, arg, e.ret, e.raised, e.calls, conflict)
  /\ UNCHANGED <<client, ready, projectId, teamId, userId, workflow, pending>>

\* Sets of indices of the remote calls of one operation that fail.
FailSets(n) == SUBSET (1..n)

----------------------------------------------------------------------------
(* getTask, getTasks, sync *)

\* Mutant of getTaskFrom: the cache is not consulted.
getTaskFromRemote(cache, id, fails, k) ==
  IF ~client THEN [ret |-> NoTask, calls |-> <<>>, cache |-> cache]
  ELSE IF (k + 1) \in fails
  THEN [ret |-> NoTask, calls |-> <<CallGetIssue(id, FALSE)>>, cache |-> cache]
  ELSE LET task == issueToTask(FetchedIssue(id))
       IN [ret |-> task, calls |-> <<CallGetIssue(id, TRUE)>>,
           cache |-> [cache EXCEPT ![id] = task]]

\* getTask(id); k: number of remote calls the caller has made already.
getTaskFrom(cache, id, fails, k) ==
  IF cache[id] # NoTask THEN [ret |-> cache[id], calls |-> <<>>, cache |-> cache]
  ELSE IF ~client THEN [ret |-> NoTask, calls |-> <<>>, cache |-> cache]
  ELSE IF (k + 1) \in fails
  THEN [ret |-> NoTask, calls |-> <<CallGetIssue(id, FALSE)>>, cache |-> cache]
  ELSE LET task == issueToTask(FetchedIssue(id))
       IN [ret |-> task, calls |-> <<CallGetIssue(id, TRUE)>>,
           cache |-> [cache EXCEPT ![id] = task]]

\* Mutant of getTaskEff: a fetched task is made the baseline as well.
getTaskEffBaselined(id, fails) ==
  LET r == getTaskFrom(taskCache, id, fails, 0)
  IN Outcome(r.ret, FALSE, r.calls, r.cache,
             IF r.calls # <<>> /\ r.ret # NoTask
             THEN [lastSyncedTasks EXCEPT ![id] =
                     [task |-> r.ret, updatedAt |-> r.ret.updatedAt]]
             ELSE lastSyncedTasks,
             stateCache, issues, clock)

getTaskEff(id, fails) ==
  LET r == getTaskFrom(taskCache, id, fails, 0)
  IN Outcome(r.ret, FALSE, r.calls, r.cache, lastSyncedTasks, stateCache,
             issues, clock)

RECURSIVE MapTasks(_)
MapTasks(iss) ==
  IF iss = <<>> THEN <<>> ELSE <<issueToTask(Head(iss))>> \o MapTasks(Tail(iss))

RECURSIVE CacheAll(_, _)
CacheAll(cache, tasks) ==
  IF tasks = <<>> THEN cache
  ELSE CacheAll([cache EXCEPT ![Head(tasks).id] = Head(tasks)], Tail(tasks))

\* Mutant of getTasksFrom: the cache is rebuilt from the fetch, so the
\* entries of the ids the fetch no longer returns are dropped.
getTasksFromRebuild(cache, filter, fails, k) ==
  IF ~client \/ projectId = "" THEN [ret |-> <<>>, calls |-> <<>>, cache |-> cache]
  ELSE IF (k + 1) \in fails
  THEN [ret |-> <<>>, calls |-> <<CallGetIssuesByLabel(FALSE)>>, cache |-> cache]
  ELSE LET tasks == MapTasks(getIssuesByLabel)
       IN [ret |-> filterTasks(tasks, filter),
           calls |-> <<CallGetIssuesByLabel(TRUE)>>,
           cache |-> CacheAll([id \in TaskIds |-> NoTask], tasks)]

\* Mutant of getTasksFrom: only the tasks that pass the filter are cached.
getTasksFromCacheFiltered(cache, filter, fails, k) ==
  IF ~client \/ projectId = "" THEN [ret |-> <<>>, calls |-> <<>>, cache |-> cache]
  ELSE IF (k + 1) \in fails
  THEN [ret |-> <<>>, calls |-> <<CallGetIssuesByLabel(FALSE)>>, cache |-> cache]
  ELSE LET tasks == MapTasks(getIssuesByLabel)
       IN [ret |-> filterTasks(tasks, filter),
           calls |-> <<CallGetIssuesByLabel(TRUE)>>,
           cache |-> CacheAll(cache, filterTasks(tasks, filter))]

\* getTasks(filter); k: number of remote calls the caller has made already.
getTasksFrom(cache, filter, fails, k) ==
  IF ~client \/ projectId = "" THEN [ret |-> <<>>, calls |-> <<>>, cache |-> cache]
  ELSE IF (k + 1) \in fails
  THEN [ret |-> <<>>, calls |-> <<CallGetIssuesByLabel(FALSE)>>, cache |-> cache]
  ELSE LET tasks == MapTasks(getIssuesByLabel)
       IN [ret |-> filterTasks(tasks, filter),
           calls |-> <<CallGetIssuesByLabel(TRUE)>>,
           cache |-> CacheAll(cache, tasks)]

getTasksEff(filter, fails) ==
  LET r == getTasksFrom(taskCache, filter, fails, 0)
  IN Outcome(r.ret, FALSE, r.calls, r.cache, lastSyncedTasks, stateCache,
             issues, clock)

getNextTaskEff(filter, fails) ==
  LET r == getTasksFrom(taskCache, NextTaskFilter(filter), fails, 0)
      tasks == SortByPriority(r.ret)
      inProgress == FindInProgress(tasks)
      next == IF r.ret = <<>> THEN NoTask
              ELSE IF inProgress # NoTask THEN inProgress
              ELSE tasks[1]
  IN Outcome(next, FALSE, r.calls, r.cache, lastSyncedTasks, stateCache,
             issues, clock)

isCompleteEff(filter, fails) ==
  LET r == getTasksFrom(taskCache, filter, fails, 0)
  IN Outcome(\A i \in 1..Len(r.ret) : r.ret[i].status \in {"completed", "cancelled"},
             FALSE, r.calls, r.cache, lastSyncedTasks, stateCache, issues, clock)

isTaskReadyEff(id, fails) ==
  LET g == getTaskFrom(taskCache, id, fails, 0)
      r == getTasksFrom(g.cache, NoFilter, fails, Len(g.calls))
  IN IF g.ret = NoTask
     THEN Outcome(FALSE, FALSE, g.calls, g.cache, lastSyncedTasks, stateCache,
                  issues, clock)
     ELSE Outcome(checkTaskReady(g.ret, r.ret), FALSE, g.calls \o r.calls,
                  r.cache, lastSyncedTasks, stateCache, issues, clock)

\* Mutant of getEpicsEff: the client is not looked at.
getEpicsEffAnyClient(fails) ==
  IF projectId = "" THEN Quiet(<<>>, <<>>)
  ELSE IF 1 \in fails THEN Quiet(<<>>, <<CallGetEpics(FALSE)>>)
  ELSE Quiet(MapTasks(getEpics), <<CallGetEpics(TRUE)>>)

getEpicsEff(fails) ==
  IF ~client \/ projectId = "" THEN Quiet(<<>>, <<>>)
  ELSE IF 1 \in fails THEN Quiet(<<>>, <<CallGetEpics(FALSE)>>)
  ELSE Quiet(MapTasks(getEpics), <<CallGetEpics(TRUE)>>)

\* Mutant of SyncLoop: the baseline is written only for the ids classified
\* added or updated.
RECURSIVE SyncLoopChangedOnly(_, _)
SyncLoopChangedOnly(acc, iss) ==
  IF iss = <<>> THEN acc
  ELSE LET issue == Head(iss)
           task == issueToTask(issue)
           cached == acc.cache[task.id]
           changed == cached = NoTask \/ cached.updatedAt # task.updatedAt
       IN SyncLoopChangedOnly(
            [cache |-> [acc.cache EXCEPT ![task.id] = task],
             base |-> IF changed
                      THEN [acc.base EXCEPT ![task.id] =
                              [task |-> task, updatedAt |-> issue.updatedAt]]
                      ELSE acc.base,
             added |-> IF cached = NoTask THEN acc.added + 1 ELSE acc.added,
             updated |-> IF cached # NoTask /\ cached.updatedAt # task.updatedAt
                         THEN acc.updated + 1 ELSE acc.updated],
            Tail(iss))

\* Mutant of SyncLoop: an id is counted as updated when it has no baseline
\* or a baseline of another updatedAt, whatever the cache holds.
RECURSIVE SyncLoopByBaseline(_, _)
SyncLoopByBaseline(acc, iss) ==
  IF iss = <<>> THEN acc
  ELSE LET issue == Head(iss)
           task == issueToTask(issue)
           cached == acc.cache[task.id]
           synced == acc.base[task.id]
       IN SyncLoopByBaseline(
            [cache |-> [acc.cache EXCEPT ![task.id] = task],
             base |-> [acc.base EXCEPT ![task.id] =
                         [task |-> task, updatedAt |-> issue.updatedAt]],
             added |-> IF cached = NoTask THEN acc.added + 1 ELSE acc.added,
             updated |-> IF cached # NoTask
                            /\ (synced = NoTask \/ synced.updatedAt # task.updatedAt)
                         THEN acc.updated + 1 ELSE acc.updated],
            Tail(iss))

\* The loop of sync(): acc = [cache, base, added, updated].
RECURSIVE SyncLoop(_, _)
SyncLoop(acc, iss) ==
  IF iss = <<>> THEN acc
  ELSE LET issue == Head(iss)
           task == issueToTask(issue)
           cached == acc.cache[task.id]
       IN SyncLoop(
            [cache |-> [acc.cache EXCEPT ![task.id] = task],
             base |-> [acc.base EXCEPT ![task.id] =
                         [task |-> task, updatedAt |-> issue.updatedAt]],
             added |-> IF cached = NoTask THEN acc.added + 1 ELSE acc.added,
             updated |-> IF cached # NoTask /\ cached.updatedAt # task.updatedAt
                         THEN acc.updated + 1 ELSE acc.updated],
            Tail(iss))

Failure(message, error) ==
  [success |-> FALSE, message |-> message, error |-> error]

syncEff(fails) ==
  IF ~client \/ projectId = ""
  THEN Quiet(Failure("Linear client not initialized", "Client not ready"), <<>>)
  ELSE IF 1 \in fails
  THEN Quiet(Failure("Failed to sync with Linear", "thrown"),
             <<CallGetIssuesByLabel(FALSE)>>)
  ELSE LET r == SyncLoop([cache |-> taskCache, base |-> lastSyncedTasks,
                          added |-> 0, updated |-> 0], getIssuesByLabel)
       IN Outcome([success |-> TRUE, message |-> "Synced", added |-> r.added,
                   updated |-> r.updated],
                  FALSE, <<CallGetIssuesByLabel(TRUE)>>, r.cache, r.base,
                  stateCache, issues, clock)

GetTask(id, fails) == Apply(getTaskEff(id, fails), "getTask", id, NoVal, NoTask)

GetTasks(filter, fails) ==
  Apply(getTasksEff(filter, fails), "getTasks", NoVal, filter, NoTask)

GetNextTask(filter, fails) ==
  Apply(getNextTaskEff(filter, fails), "getNextTask", NoVal, filter, NoTask)

IsComplete(filter, fails) ==
  Apply(isCompleteEff(filter, fails), "isComplete", NoVal, filter, NoTask)

IsTaskReady(id, fails) ==
  Apply(isTaskReadyEff(id, fails), "isTaskReady", id, NoVal, NoTask)

GetEpics(fails) == Apply(getEpicsEff(fails), "getEpics", NoVal, NoVal, NoTask)

Sync(fails) == Apply(syncEff(fails), "sync", NoVal, NoVal, NoTask)

----------------------------------------------------------------------------
(* claimTask, completeTask, updateTaskStatus *)

\* Mutant of claimTaskEff: the claimed task becomes the baseline and the cache
\* is left alone.
claimTaskEffBaselineOnly(id, fails) ==
  IF ~client \/ userId = "" THEN Quiet(NoTask, <<>>)
  ELSE
    LET st == findStateByType("started", 1 \in fails)
        k == Len(st.calls) + 1
        input == Input(st.id, userId, Absent)
        up == updateIssue(id, input, k \in fails)
        calls == st.calls \o up.calls
    IN IF st.threw
       THEN Quiet(NoTask, st.calls)
       ELSE IF up.threw
       THEN Outcome(NoTask, FALSE, calls, taskCache, lastSyncedTasks, st.memo,
                    issues, clock)
       ELSE LET task == issueToTask(up.issue)
            IN Outcome(task, FALSE, calls,
                       taskCache,
                       [lastSyncedTasks EXCEPT ![id] =
                          [task |-> task, updatedAt |-> up.issue.updatedAt]],
                       st.memo, up.issues, up.clock)

claimTaskEff(id, fails) ==
  IF ~client \/ userId = "" THEN Quiet(NoTask, <<>>)
  ELSE
    LET st == findStateByType("started", 1 \in fails)
        k == Len(st.calls) + 1
        input == Input(st.id, userId, Absent)
        up == updateIssue(id, input, k \in fails)
        calls == st.calls \o up.calls
    IN IF st.threw
       THEN Quiet(NoTask, st.calls)
       ELSE IF up.threw
       THEN Outcome(NoTask, FALSE, calls, taskCache, lastSyncedTasks, st.memo,
                    issues, clock)
       ELSE LET task == issueToTask(up.issue)
            IN Outcome(task, FALSE, calls,
                       [taskCache EXCEPT ![id] = task],
                       [lastSyncedTasks EXCEPT ![id] =
                          [task |-> task, updatedAt |-> up.issue.updatedAt]],
                       st.memo, up.issues, up.clock)

\* Mutant of completeTaskEff: the updated task is cached before the comment
\* is added.
completeTaskEffCachesFirst(id, reason, fails) ==
  IF ~client
  THEN Quiet(Failure("Linear client not initialized", "Client not ready"), <<>>)
  ELSE
    LET st == findStateByType("completed", 1 \in fails)
        k == Len(st.calls) + 1
        input == Input(st.id, Absent, Absent)
        up == updateIssue(id, input, k \in fails)
        callsUp == st.calls \o up.calls
        comment == reason \notin {NoVal, ""}
        commentOk == (k + 1) \notin fails
        calls == IF comment THEN callsUp \o <<CallAddComment(id, commentOk)>>
                 ELSE callsUp
        thrown == Failure("Failed to complete task", "thrown")
    IN IF st.threw THEN Quiet(thrown, st.calls)
       ELSE IF st.id = NoVal
       THEN Outcome(Failure("Could not find completed state",
                            "No completed state found in team workflow"),
                    FALSE, st.calls, taskCache, lastSyncedTasks, st.memo,
                    issues, clock)
       ELSE IF up.threw
       THEN Outcome(thrown, FALSE, callsUp, taskCache, lastSyncedTasks,
                    st.memo, issues, clock)
       ELSE IF comment /\ ~commentOk
       THEN Outcome(thrown, FALSE, calls,
                    [taskCache EXCEPT ![id] = issueToTask(up.issue)],
                    lastSyncedTasks, st.memo, up.issues, up.clock)
       ELSE LET task == issueToTask(up.issue)
            IN Outcome([success |-> TRUE, message |-> "marked as complete",
                        task |-> task],
                       FALSE, calls, [taskCache EXCEPT ![id] = task],
                       lastSyncedTasks, st.memo, up.issues, up.clock)

\* completeTask(id, reason): reason is NoVal, "" or a text.
completeTaskEff(id, reason, fails) ==
  IF ~client
  THEN Quiet(Failure("Linear client not initialized", "Client not ready"), <<>>)
  ELSE
    LET st == findStateByType("completed", 1 \in fails)
        k == Len(st.calls) + 1
        input == Input(st.id, Absent, Absent)
        up == updateIssue(id, input, k \in fails)
        callsUp == st.calls \o up.calls
        comment == reason \notin {NoVal, ""}
        commentOk == (k + 1) \notin fails
        calls == IF comment THEN callsUp \o <<CallAddComment(id, commentOk)>>
                 ELSE callsUp
        thrown == Failure("Failed to complete task", "thrown")
    IN IF st.threw THEN Quiet(thrown, st.calls)
       ELSE IF st.id = NoVal
       THEN Outcome(Failure("Could not find completed state",
                            "No completed state found in team workflow"),
                    FALSE, st.calls, taskCache, lastSyncedTasks, st.memo,
                    issues, clock)
       ELSE IF up.threw
       THEN Outcome(thrown, FALSE, callsUp, taskCache, lastSyncedTasks,
                    st.memo, issues, clock)
       ELSE IF comment /\ ~commentOk
       THEN Outcome(thrown, FALSE, calls, taskCache, lastSyncedTasks,
                    st.memo, up.issues, up.clock)
       ELSE LET task == issueToTask(up.issue)
            IN Outcome([success |-> TRUE, message |-> "marked as complete",
                        task |-> task],
                       FALSE, calls, [taskCache EXCEPT ![id] = task],
                       lastSyncedTasks, st.memo, up.issues, up.clock)

\* Mutant of updateTaskStatusEff: a successful update also rewrites the
\* baseline.
updateTaskStatusRebase(id, status, fails) ==
  IF ~client THEN Quiet(NoTask, <<>>)
  ELSE
    LET targetStateType == mapStatusToStateType(status)
        st == findStateByType(targetStateType, 1 \in fails)
        k == Len(st.calls) + 1
        input == Input(st.id, Absent, Absent)
        up == updateIssue(id, input, k \in fails)
        calls == st.calls \o up.calls
    IN IF st.threw THEN Quiet(NoTask, st.calls)
       ELSE IF st.id = NoVal
       THEN Outcome(NoTask, FALSE, st.calls, taskCache, lastSyncedTasks,
                    st.memo, issues, clock)
       ELSE IF up.threw
       THEN Outcome(NoTask, FALSE, calls, taskCache, lastSyncedTasks, st.memo,
                    issues, clock)
       ELSE LET task == issueToTask(up.issue)
            IN Outcome(task, FALSE, calls, [taskCache EXCEPT ![id] = task],
                       [lastSyncedTasks EXCEPT ![id] =
                          [task |-> task, updatedAt |-> up.issue.updatedAt]],
                       st.memo, up.issues, up.clock)

\* Mutant of updateTaskStatusEff: the task returned and cached carries the
\* status that was asked for.
updateTaskStatusEffEchoes(id, status, fails) ==
  IF ~client THEN Quiet(NoTask, <<>>)
  ELSE
    LET targetStateType == mapStatusToStateType(status)
        st == findStateByType(targetStateType, 1 \in fails)
        k == Len(st.calls) + 1
        input == Input(st.id, Absent, Absent)
        up == updateIssue(id, input, k \in fails)
        calls == st.calls \o up.calls
    IN IF st.threw THEN Quiet(NoTask, st.calls)
       ELSE IF st.id = NoVal
       THEN Outcome(NoTask, FALSE, st.calls, taskCache, lastSyncedTasks,
                    st.memo, issues, clock)
       ELSE IF up.threw
       THEN Outcome(NoTask, FALSE, calls, taskCache, lastSyncedTasks, st.memo,
                    issues, clock)
       ELSE LET task == [issueToTask(up.issue) EXCEPT !.status = status]
            IN Outcome(task, FALSE, calls, [taskCache EXCEPT ![id] = task],
                       lastSyncedTasks, st.memo, up.issues, up.clock)

updateTaskStatusEff(id, status, fails) ==
  IF ~client THEN Quiet(NoTask, <<>>)
  ELSE
    LET targetStateType == mapStatusToStateType(status)
        st == findStateByType(targetStateType, 1 \in fails)
        k == Len(st.calls) + 1
        input == Input(st.id, Absent, Absent)
        up == updateIssue(id, input, k \in fails)
        calls == st.calls \o up.calls
    IN IF st.threw THEN Quiet(NoTask, st.calls)
       ELSE IF st.id = NoVal
       THEN Outcome(NoTask, FALSE, st.calls, taskCache, lastSyncedTasks,
                    st.memo, issues, clock)
       ELSE IF up.threw
       THEN Outcome(NoTask, FALSE, calls, taskCache, lastSyncedTasks, st.memo,
                    issues, clock)
       ELSE LET task == issueToTask(up.issue)
            IN Outcome(task, FALSE, calls, [taskCache EXCEPT ![id] = task],
                       lastSyncedTasks, st.memo, up.issues, up.clock)

ClaimTask(id, fails) ==
  Apply(claimTaskEff(id, fails), "claimTask", id, NoVal, NoTask)

CompleteTask(id, reason, fails) ==
  Apply(completeTaskEff(id, reason, fails), "completeTask", id, reason, NoTask)

UpdateTaskStatus(id, status, fails) ==
  Apply(updateTaskStatusEff(id, status, fails), "updateTaskStatus", id, status,
        NoTask)

----------------------------------------------------------------------------
(* detectConflict, resolveConflict *)

\* The fields detectConflict watches, in the order it compares them.
Watched == <<"status", "title", "description", "assignee">>

RECURSIVE Differing(_, _, _)
Differing(fields, a, b) ==
  IF fields = <<>> THEN <<>>
  ELSE (IF a[Head(fields)] # b[Head(fields)] THEN <<Head(fields)>> ELSE <<>>)
       \o Differing(Tail(fields), a, b)

\* Mutant of compareVersions: the assignee is not compared.
compareVersionsNoAssignee(taskId, lastSynced, remoteIssue) ==
  LET remoteTask == issueToTask(remoteIssue)
      changedFields == Differing(<<"status", "title", "description">>,
                                 lastSynced.task, remoteTask)
  IN IF remoteIssue.updatedAt # lastSynced.updatedAt /\ Len(changedFields) > 0
     THEN [taskId |-> taskId,
           localVersion |-> lastSynced.task,
           remoteVersion |-> remoteTask,
           localUpdatedAt |-> lastSynced.updatedAt,
           remoteUpdatedAt |-> remoteIssue.updatedAt,
           changedFields |-> changedFields]
     ELSE NoTask

\* The comparison of detectConflict once the remote issue is fetched.
compareVersions(taskId, lastSynced, remoteIssue) ==
  LET remoteTask == issueToTask(remoteIssue)
      changedFields == Differing(Watched, lastSynced.task, remoteTask)
  IN IF remoteIssue.updatedAt # lastSynced.updatedAt /\ Len(changedFields) > 0
     THEN [taskId |-> taskId,
           localVersion |-> lastSynced.task,
           remoteVersion |-> remoteTask,
           localUpdatedAt |-> lastSynced.updatedAt,
           remoteUpdatedAt |-> remoteIssue.updatedAt,
           changedFields |-> changedFields]
     ELSE NoTask

\* detectConflict(taskId): ret is the ConflictInfo or NoTask (null).
detectConflict(taskId, fails) ==
  IF ~client THEN [ret |-> NoTask, calls |-> <<>>]
  ELSE IF lastSyncedTasks[taskId] = NoTask THEN [ret |-> NoTask, calls |-> <<>>]
  ELSE IF 1 \in fails
  THEN [ret |-> NoTask, calls |-> <<CallGetIssue(taskId, FALSE)>>]
  ELSE [ret |-> compareVersions(taskId, lastSyncedTasks[taskId],
                                FetchedIssue(taskId)),
        calls |-> <<CallGetIssue(taskId, TRUE)>>]

detectConflictEff(taskId, fails) ==
  LET r == detectConflict(taskId, fails) IN Quiet(r.ret, r.calls)

\* Mutant of resolveRemote: the cache is written, the baseline is not.
resolveRemoteCacheOnly(taskId, conflict, calls) ==
  Outcome(conflict.remoteVersion, FALSE, calls,
          [taskCache EXCEPT ![taskId] = conflict.remoteVersion],
          lastSyncedTasks, stateCache, issues, clock)

\* resolveConflict with resolution 'remote', for a detected conflict.
resolveRemote(taskId, conflict, calls) ==
  Outcome(conflict.remoteVersion, FALSE, calls,
          [taskCache EXCEPT ![taskId] = conflict.remoteVersion],
          [lastSyncedTasks EXCEPT ![taskId] =
             [task |-> conflict.remoteVersion,
              updatedAt |-> conflict.remoteUpdatedAt]],
          stateCache, issues, clock)

\* Mutant of resolveLocal: the state is pushed, the description is not.
resolveLocalStateOnly(taskId, conflict, dcalls, fails) ==
  LET k == Len(dcalls)
      stateType == mapStatusToStateType(conflict.localVersion.status)
      st == findStateByType(stateType, (k + 1) \in fails)
      k2 == k + Len(st.calls)
      input == Input(st.id, Absent, Absent)
      up == updateIssue(taskId, input, (k2 + 1) \in fails)
      calls == dcalls \o st.calls \o up.calls
  IN IF st.threw
     THEN Outcome(NoTask, TRUE, dcalls \o st.calls, taskCache, lastSyncedTasks,
                  stateCache, issues, clock)
     ELSE IF st.id = NoVal
     THEN Outcome(conflict.remoteVersion, FALSE, dcalls \o st.calls, taskCache,
                  lastSyncedTasks, st.memo, issues, clock)
     ELSE IF up.threw
     THEN Outcome(NoTask, TRUE, calls, taskCache, lastSyncedTasks, st.memo,
                  issues, clock)
     ELSE LET task == issueToTask(up.issue)
          IN Outcome(task, FALSE, calls,
                     [taskCache EXCEPT ![taskId] = task],
                     [lastSyncedTasks EXCEPT ![taskId] =
                        [task |-> task, updatedAt |-> up.issue.updatedAt]],
                     st.memo, up.issues, up.clock)

\* resolveConflict with resolution 'local', for a detected conflict; dcalls
\* are the calls made so far.  Nothing catches what findStateByType or
\* updateIssue throw here.
resolveLocal(taskId, conflict, dcalls, fails) ==
  LET k == Len(dcalls)
      stateType == mapStatusToStateType(conflict.localVersion.status)
      st == findStateByType(stateType, (k + 1) \in fails)
      k2 == k + Len(st.calls)
      input == Input(st.id, Absent, conflict.localVersion.description)
      up == updateIssue(taskId, input, (k2 + 1) \in fails)
      calls == dcalls \o st.calls \o up.calls
  IN IF st.threw
     THEN Outcome(NoTask, TRUE, dcalls \o st.calls, taskCache, lastSyncedTasks,
                  stateCache, issues, clock)
     ELSE IF st.id = NoVal
     THEN Outcome(conflict.remoteVersion, FALSE, dcalls \o st.calls, taskCache,
                  lastSyncedTasks, st.memo, issues, clock)
     ELSE IF up.threw
     THEN Outcome(NoTask, TRUE, calls, taskCache, lastSyncedTasks, st.memo,
                  issues, clock)
     ELSE LET task == issueToTask(up.issue)
          IN Outcome(task, FALSE, calls,
                     [taskCache EXCEPT ![taskId] = task],
                     [lastSyncedTasks EXCEPT ![taskId] =
                        [task |-> task, updatedAt |-> up.issue.updatedAt]],
                     st.memo, up.issues, up.clock)

\* resolveConflict with any other resolution ('merge'), for a detected
\* conflict: neither branch is taken.
resolveOther(taskId, conflict, calls) ==
  Quiet(conflict.remoteVersion, calls)

resolveConflictEff(taskId, resolution, fails) ==
  IF ~client THEN Quiet(NoTask, <<>>)
  ELSE
    LET d == detectConflict(taskId, fails)
        conflict == d.ret
    IN IF conflict = NoTask
       THEN LET g == getTaskFrom(taskCache, taskId, fails, Len(d.calls))
            IN Outcome(g.ret, FALSE, d.calls \o g.calls, g.cache,
                       lastSyncedTasks, stateCache, issues, clock)
       ELSE IF resolution = "remote" THEN resolveRemote(taskId, conflict, d.calls)
       ELSE IF resolution = "local"
       THEN resolveLocal(taskId, conflict, d.calls, fails)
       ELSE resolveOther(taskId, conflict, d.calls)

Resolutions == {"local", "remote", "merge"}

DetectConflict(taskId, fails) ==
  LET e == detectConflictEff(taskId, fails)
  IN Apply(e, "detectConflict", taskId, NoVal, e.ret)

ResolveConflict(taskId, resolution, fails) ==
  Apply(resolveConflictEff(taskId, resolution, fails), "resolveConflict",
        taskId, resolution, detectConflict(taskId, fails).ret)

----------------------------------------------------------------------------
(* Specification *)

Reasons == {NoVal, "done"}

\* The filters the operations are called with.
Filters == { NoFilter, [status |-> {"completed"}] }

\* The configurations initialize is called with, each with the outcome of
\* its getViewer call.
Config(apiKey, p, t, viewerOk) ==
  [apiKey |-> apiKey, projectId |-> p, teamId |-> t, viewerOk |-> viewerOk]
Configs == { Config(TRUE, "proj1", "team1", TRUE),
             Config(TRUE, "proj1", "team1", FALSE),
             Config(TRUE, "proj1", "", TRUE),
             Config(FALSE, "proj1", "team1", TRUE) }

\* The caller takes the result of the operation; the plugin runs one
\* operation at a time.
Return ==
  /\ last # Idle
  /\ last' = Idle
  /\ UNCHANGED engineVars
  /\ UNCHANGED remoteVars
  /\ UNCHANGED pending

Next ==
  \/ \E c \in Configs : Initialize(c.apiKey, c.projectId, c.teamId, c.viewerOk)
  \/ Dispose
  \/ \E id \in DOMAIN issues :
        \/ \E v \in SeqToSet(workflow) : ExternalEdit(id, "state", v, TRUE)
        \/ \E v \in Titles, bump \in BOOLEAN : ExternalEdit(id, "title", v, bump)
        \/ \E v \in Descriptions : ExternalEdit(id, "description", v, TRUE)
        \/ \E v \in OtherUsers \cup {NoVal} : ExternalEdit(id, "assignee", v, TRUE)
        \/ ExternalEdit(id, "updatedAt", clock + 1, TRUE)
        \/ ExternalEdit(id, "listed", FALSE, TRUE)
  \/ \E id \in DOMAIN issues, fails \in FailSets(1) : GetTask(id, fails)
  \/ \E f \in Filters, fails \in FailSets(1) : GetTasks(f, fails)
  \/ \E f \in Filters, fails \in FailSets(1) : GetNextTask(f, fails)
  \/ \E f \in Filters, fails \in FailSets(1) : IsComplete(f, fails)
  \/ \E id \in DOMAIN issues, fails \in FailSets(2) : IsTaskReady(id, fails)
  \/ \E fails \in FailSets(1) : GetEpics(fails)
  \/ \E fails \in FailSets(1) : Sync(fails)
  \/ \E id \in DOMAIN issues, fails \in FailSets(2) : ClaimTask(id, fails)
  \/ \E id \in DOMAIN issues, r \in Reasons, fails \in FailSets(3) :
        CompleteTask(id, r, fails)
  \/ \E id \in DOMAIN issues, s \in TrackerTaskStatus, fails \in FailSets(2) :
        UpdateTaskStatus(id, s, fails)
  \/ \E id \in DOMAIN issues, fails \in FailSets(1) : DetectConflict(id, fails)
  \/ \E id \in DOMAIN issues, r \in Resolutions, fails \in FailSets(3) :
        ResolveConflict(id, r, fails)
  \/ Return

Spec == Init /\ [][Next]_vars

\* The write side of the plugin for a team whose workflow is reconfigured at
\* the remote while the plugin runs.
InitStates == InitOver({"i1"}, TeamWorkflows)

StatesConfigs == { Config(TRUE, "proj1", "team1", TRUE),
                   Config(TRUE, "proj1", "", TRUE) }

NextStates ==
  \/ \E c \in StatesConfigs : Initialize(c.apiKey, c.projectId, c.teamId, c.viewerOk)
  \/ Dispose
  \/ \E w \in TeamWorkflows : ReconfigureWorkflow(w)
  \/ \E id \in DOMAIN issues, v \in SeqToSet(workflow) :
        ExternalEdit(id, "state", v, TRUE)
  \/ \E fails \in FailSets(1) : Sync(fails)
  \/ \E id \in DOMAIN issues, fails \in FailSets(2) : ClaimTask(id, fails)
  \/ \E id \in DOMAIN issues, fails \in FailSets(2) : CompleteTask(id, NoVal, fails)
  \/ \E id \in DOMAIN issues, s \in TrackerTaskStatus, fails \in FailSets(2) :
        UpdateTaskStatus(id, s, fails)
  \/ \E id \in DOMAIN issues, fails \in FailSets(3) :
        ResolveConflict(id, "local", fails)
  \/ Return

SpecStates == InitStates /\ [][NextStates]_vars

----------------------------------------------------------------------------
(* The engine alone: nobody else edits the remote *)

\* The remote record changes only by the engine's own completeTask,
\* updateTaskStatus and resolveConflict; a task is completed through
\* completeTask.
InitOwnWrites == InitWith({"i1"})

OwnWriteStatuses == TrackerTaskStatus \ {"completed"}

NextOwnWrites ==
  \/ Initialize(TRUE, "proj1", "team1", TRUE)
  \/ \E fails \in FailSets(1) : Sync(fails)
  \/ \E id \in DOMAIN issues, r \in Reasons, fails \in FailSets(3) :
        CompleteTask(id, r, fails)
  \/ \E id \in DOMAIN issues, s \in OwnWriteStatuses, fails \in FailSets(2) :
        UpdateTaskStatus(id, s, fails)
  \/ \E id \in DOMAIN issues, fails \in FailSets(1) : DetectConflict(id, fails)
  \/ \E id \in DOMAIN issues, r \in Resolutions, fails \in FailSets(3) :
        ResolveConflict(id, r, fails)
  \/ Return

SpecOwnWrites == InitOwnWrites /\ [][NextOwnWrites]_vars

----------------------------------------------------------------------------
(* Operations in flight: an operation that awaits the response to its remote
   call lets the other callbacks of the plugin run before it goes on *)

\* Largest number of operations that await a response at the same time.
MaxInFlight == 2

\* The response to the remote call an operation awaits: ok, whether the call
\* returns (it does not throw); fetched, the issues it returns; calls, the
\* remote calls the operation has made.
Response(op, id, ok, fetched, calls) ==
  [op |-> op, id |-> id, ok |-> ok, fetched |-> fetched, calls |-> calls]

\* The operation has issued its call and awaits the response r.
Await(r) ==
  /\ last = Idle
  /\ Cardinality(pending) < MaxInFlight
  /\ r \notin pending
  /\ pending' = pending \cup {r}
  /\ UNCHANGED last

\* The operation goes on with the response r.
Resumed(r) ==
  /\ last = Idle
  /\ r \in pending
  /\ pending' = pending \ {r}
  /\ UNCHANGED <<client, ready, projectId, teamId, userId, stateCache>>
  /\ UNCHANGED remoteVars

\* sync() up to `await this.client.getIssuesByLabel(...)`.
SyncSend(fails) ==
  /\ client /\ projectId # ""
  /\ Await(Response("sync", NoVal, 1 \notin fails,
                    IF 1 \in fails THEN <<>> ELSE getIssuesByLabel,
                    <<CallGetIssuesByLabel(1 \notin fails)>>))
  /\ UNCHANGED engineVars
  /\ UNCHANGED remoteVars

\* sync() from the response on: the loop over the fetched issues.
SyncResume(r) ==
  /\ r.op = "sync"
  /\ Resumed(r)
  /\ LET acc == SyncLoop([cache |-> taskCache, base |-> lastSyncedTasks,
                          added |-> 0, updated |-> 0], r.fetched)
     IN /\ taskCache' = acc.cache
        /\ lastSyncedTasks' = acc.base
        /\ last' = LastOf("sync", NoVal, NoVal,
                          IF r.ok
                          THEN [success |-> TRUE, message |-> "Synced",
                                added |-> acc.added, updated |-> acc.updated]
                          ELSE Failure("Failed to sync with Linear", "thrown"),
                          FALSE, r.calls, NoTask)

\* getTasks() up to `await this.client.getIssuesByLabel(...)`.
GetTasksSend(fails) ==
  /\ client /\ projectId # ""
  /\ Await(Response("getTasks", NoVal, 1 \notin fails,
                    IF 1 \in fails THEN <<>> ELSE getIssuesByLabel,
                    <<CallGetIssuesByLabel(1 \notin fails)>>))
  /\ UNCHANGED engineVars
  /\ UNCHANGED remoteVars

\* getTasks() from the response on: every fetched task is cached.
GetTasksResume(r) ==
  /\ r.op = "getTasks"
  /\ Resumed(r)
  /\ LET tasks == MapTasks(r.fetched)
     IN /\ taskCache' = CacheAll(taskCache, tasks)
        /\ last' = LastOf("getTasks", NoVal, NoFilter,
                          filterTasks(tasks, NoFilter), FALSE, r.calls, NoTask)
  /\ UNCHANGED lastSyncedTasks

\* claimTask(id) up to `await this.client.updateIssue(...)`: the workflow
\* states are resolved and the remote applies the update.  No other
\* operation on the id is in flight.
ClaimTaskSend(id, fails) ==
  LET e == claimTaskEff(id, fails)
  IN /\ client /\ userId # ""
     /\ \A r \in pending : r.id # id
     /\ e.clock <= MaxTime
     /\ Await(Response("claimTask", id, e.ret # NoTask,
                       IF e.ret = NoTask THEN <<>>
                       ELSE <<UpdateResponse(e.issues[id])>>,
                       e.calls))
     /\ stateCache' = e.memo
     /\ issues' = e.issues
     /\ clock' = e.clock
     /\ UNCHANGED <<client, ready, projectId, teamId, userId, taskCache,
                    lastSyncedTasks, workflow>>

\* claimTask(id) from the response on: cache and baseline take the
\* acknowledged task.
ClaimTaskResume(r) ==
  /\ r.op = "claimTask"
  /\ Resumed(r)
  /\ IF r.ok
     THEN LET task == issueToTask(r.fetched[1])
          IN /\ taskCache' = [taskCache EXCEPT ![r.id] = task]
             /\ lastSyncedTasks' =
                  [lastSyncedTasks EXCEPT ![r.id] =
                     [task |-> task, updatedAt |-> r.fetched[1].updatedAt]]
             /\ last' = LastOf("claimTask", r.id, NoVal, task, FALSE, r.calls,
                               NoTask)
     ELSE /\ UNCHANGED <<taskCache, lastSyncedTasks>>
          /\ last' = LastOf("claimTask", r.id, NoVal, NoTask, FALSE, r.calls,
                            NoTask)

InitInFlight == InitWith({"i1"})

NextInFlight ==
  \/ Initialize(TRUE, "proj1", "team1", TRUE)
  \/ Dispose
  \/ \E fails \in FailSets(1) : SyncSend(fails)
  \/ \E fails \in FailSets(1) : GetTasksSend(fails)
  \/ \E id \in DOMAIN issues, fails \in FailSets(2) : ClaimTaskSend(id, fails)
  \/ \E r \in pending : SyncResume(r)
  \/ \E r \in pending : GetTasksResume(r)
  \/ \E r \in pending : ClaimTaskResume(r)
  \/ Return

SpecInFlight == InitInFlight /\ [][NextInFlight]_vars

----------------------------------------------------------------------------
(* The module-level functions applied to inputs of their own *)

\* Largest magnitude of the priorities mapPriority is applied to.
MaxPriorityInput == 8

PriorityInputs == (0 - MaxPriorityInput)..MaxPriorityInput

\* The state types of the remote, a type the plugin does not know, a
\* misspelt one and the empty string.
StateTypeInputs == LinearStateType \cup {"triage", "Started", ""}

\* Tasks a caller hands to filterTasks and checkTaskReady; dependsOn is a key
\* only of the tasks that have dependencies declared.
TaskA ==
  [id |-> "a", status |-> "open", priority |-> 0,
   labels |-> <<"urgent", "ralph-tui">>, type |-> "task", parentId |-> "e1",
   assignee |-> "u1@x"]
TaskB ==
  [id |-> "b", status |-> "in_progress", priority |-> 2,
   labels |-> <<"ralph-tui">>, type |-> "epic", parentId |-> NoVal,
   assignee |-> NoVal, dependsOn |-> <<"a">>]
TaskC ==
  [id |-> "c", status |-> "completed", priority |-> 0,
   labels |-> <<"urgent">>, type |-> NoVal, parentId |-> "e1",
   assignee |-> "u2@x", dependsOn |-> <<"z">>]
TaskD ==
  [id |-> "d", status |-> "open", priority |-> 3,
   labels |-> <<>>, type |-> "task", parentId |-> NoVal,
   assignee |-> "u1@x", dependsOn |-> <<"c", "a">>]
TaskE ==
  [id |-> "e", status |-> "blocked", priority |-> 4,
   labels |-> <<"ralph-tui">>, type |-> "task", parentId |-> NoVal,
   assignee |-> NoVal, dependsOn |-> <<>>]

TaskPool == {TaskA, TaskB, TaskC, TaskD, TaskE}

\* The collections: the pool's tasks, each at most once, in any order, at
\* most three of them.
TaskLists ==
  {<<>>} \cup {<<t>> : t \in TaskPool}
    \cup {<<t, u>> : <<t, u>> \in {p \in TaskPool \X TaskPool : p[1] # p[2]}}
    \cup {<<t, u, v>> : <<t, u, v>> \in
             {p \in TaskPool \X TaskPool \X TaskPool :
                p[1] # p[2] /\ p[1] # p[3] /\ p[2] # p[3]}}

\* A dependency in each status, for checkTaskReady.
DepTask(id, status) == [id |-> id, status |-> status, priority |-> 2]

DepLists ==
  {<<>>} \cup {<<DepTask("a", st)>> : st \in TrackerTaskStatus}
    \cup {<<DepTask("a", st), DepTask("b", su)>> :
             <<st, su>> \in TrackerTaskStatus \X TrackerTaskStatus}

Dependents ==
  { [id |-> "t", status |-> "open", priority |-> 2],
    [id |-> "t", status |-> "open", priority |-> 2, dependsOn |-> <<>>],
    [id |-> "t", status |-> "open", priority |-> 2, dependsOn |-> <<"a">>],
    [id |-> "t", status |-> "open", priority |-> 2, dependsOn |-> <<"b">>],
    [id |-> "t", status |-> "open", priority |-> 2, dependsOn |-> <<"a", "b">>] }

PureFilters ==
  { NoFilter,
    [status |-> {"open", "in_progress"}, labels |-> {"urgent"}],
    [status |-> {"open"}],
    [status |-> {}],
    [labels |-> {"urgent", "ralph-tui"}],
    [labels |-> {}],
    [priority |-> {0}],
    [priority |-> {0, 2}],
    [type |-> {"epic"}],
    [type |-> {"task", "epic"}],
    [parentId |-> "e1"],
    [assignee |-> "u1@x"],
    [excludeIds |-> {"a"}],
    [ready |-> TRUE],
    [ready |-> FALSE],
    [status |-> {"in_progress", "open"}, ready |-> TRUE],
    [excludeIds |-> {"a"}, ready |-> TRUE],
    [offset |-> 1],
    [offset |-> 0],
    [limit |-> 1],
    [limit |-> 0],
    [offset |-> 1, limit |-> 1],
    [excludeIds |-> {"a"}, offset |-> 1],
    [ready |-> TRUE, limit |-> 1],
    [priority |-> {0}, excludeIds |-> {"c"}, limit |-> 1] }

\* The call of a function and what it returned.
PureOf(fn, arg, ret) == [op |-> fn, arg |-> arg, ret |-> ret]

ApplyPure(fn, arg, ret) ==
  /\ last = Idle
  /\ last' = PureOf(fn, arg, ret)
  /\ UNCHANGED engineVars
  /\ UNCHANGED remoteVars
  /\ UNCHANGED pending

ApplyMapStateToStatus(stateType) ==
  ApplyPure("mapStateToStatus", stateType, mapStateToStatus(stateType))

ApplyMapStatusToStateType(status) ==
  ApplyPure("mapStatusToStateType", status, mapStatusToStateType(status))

ApplyMapPriority(p) == ApplyPure("mapPriority", p, mapPriority(p))

ApplyCheckTaskReady(task, allTasks) ==
  ApplyPure("checkTaskReady", [task |-> task, allTasks |-> allTasks],
            checkTaskReady(task, allTasks))

ApplyFilterTasks(tasks, filter) ==
  ApplyPure("filterTasks", [tasks |-> tasks, filter |-> filter],
            filterTasks(tasks, filter))

InitPure == InitOver({}, {<<STodo, SProg, SDone>>})

NextPure ==
  \/ \E x \in StateTypeInputs : ApplyMapStateToStatus(x)
  \/ \E x \in TrackerTaskStatus : ApplyMapStatusToStateType(x)
  \/ \E p \in PriorityInputs : ApplyMapPriority(p)
  \/ \E t \in Dependents, all \in DepLists : ApplyCheckTaskReady(t, all)
  \/ \E tasks \in TaskLists, f \in PureFilters : ApplyFilterTasks(tasks, f)
  \/ Return

SpecPure == InitPure /\ [][NextPure]_vars

\* The read side of the plugin over a remote that holds two tracked issues,
\* whose state, priority and membership of the project other users change.
InitQuery == InitWith({"i1", "i2"})

RemotePriorities == {0, 1, 3}

\* A configuration that gives the plugin a client, and one without a key.
QueryConfigs == { Config(TRUE, "proj1", "team1", TRUE),
                  Config(FALSE, "proj1", "team1", TRUE) }

QueryFilters ==
  { NoFilter,
    [status |-> {"completed"}],
    [excludeIds |-> {"i1"}],
    [priority |-> {0}],
    [limit |-> 1],
    [offset |-> 1] }

NextQuery ==
  \/ \E c \in QueryConfigs : Initialize(c.apiKey, c.projectId, c.teamId, c.viewerOk)
  \/ Dispose
  \/ \E id \in DOMAIN issues :
        \/ \E v \in SeqToSet(workflow) : ExternalEdit(id, "state", v, TRUE)
        \/ \E v \in RemotePriorities : ExternalEdit(id, "priority", v, TRUE)
        \/ \E v \in BOOLEAN : ExternalEdit(id, "listed", v, TRUE)
  \/ \E id \in DOMAIN issues, fails \in FailSets(1) : GetTask(id, fails)
  \/ \E f \in QueryFilters, fails \in FailSets(1) : GetTasks(f, fails)
  \/ \E f \in QueryFilters, fails \in FailSets(1) : GetNextTask(f, fails)
  \/ \E f \in QueryFilters, fails \in FailSets(1) : IsComplete(f, fails)
  \/ \E id \in DOMAIN issues, fails \in FailSets(2) : IsTaskReady(id, fails)
  \/ \E fails \in FailSets(1) : GetEpics(fails)
  \/ \E fails \in FailSets(1) : Sync(fails)
  \/ Return

SpecQuery == InitQuery /\ [][NextQuery]_vars

----------------------------------------------------------------------------
(* Vocabulary of the properties.  A property about an operation is stated
   in the state the operation leaves, before its result is taken: `last`
   holds the call, its result and the stores as the operation found them. *)

Ran(op) == last # Idle /\ last.op = op

\* The translation table of the status vocabulary, as specified.
ToRemoteType ==
  [s \in TrackerTaskStatus |->
     CASE s = "open" -> "unstarted"
       [] s = "in_progress" -> "started"
       [] s = "blocked" -> "started"
       [] s = "completed" -> "completed"
       [] s = "cancelled" -> "canceled"]

WatchedFields == {"status", "title", "description", "assignee"}

\* The ids of the workflow states of the given type that the team has.
StateIdsOfType(type) ==
  {workflow[i].id : i \in {j \in 1..Len(workflow) : workflow[j].type = type}}

UpdateCalls(calls) ==
  {calls[i] : i \in {j \in 1..Len(calls) : calls[j].kind = "updateIssue"}}
MutationCalls(calls) ==
  {calls[i] : i \in {j \in 1..Len(calls) :
                        calls[j].kind \in {"updateIssue", "addComment"}}}
NumUpdates(calls) ==
  Cardinality({j \in 1..Len(calls) : calls[j].kind = "updateIssue"})
StatesFetchFailed(calls) ==
  \E i \in 1..Len(calls) : calls[i].kind = "getStates" /\ ~calls[i].ok

\* The remote issue of the last operation, normalized as a fetch gives it
\* and as the acknowledgement of an update gives it.
RemoteTask(id) ==
  [ id |-> id,
    title |-> issues[id].identifier \o ": " \o issues[id].title,
    status |-> IF issues[id].state.type = "started" THEN "in_progress"
               ELSE IF issues[id].state.type = "completed" THEN "completed"
               ELSE IF issues[id].state.type = "canceled" THEN "cancelled"
               ELSE "open",
    priority |-> IF issues[id].priority = 0 THEN 2 ELSE issues[id].priority - 1,
    description |-> issues[id].description,
    labels |-> issues[id].labels,
    type |-> IF \E i \in 1..Len(issues[id].labels) :
                     issues[id].labels[i] \in {"epic", "Epic", "EPIC"}
             THEN "epic" ELSE "task",
    parentId |-> issues[id].parent,
    assignee |-> IF issues[id].assignee = NoVal THEN NoVal
                 ELSE issues[id].assignee \o "@x",
    createdAt |-> issues[id].createdAt,
    updatedAt |-> issues[id].updatedAt,
    stateId |-> issues[id].state.id ]
AckTask(id) == [RemoteTask(id) EXCEPT !.parentId = NoVal, !.createdAt = NoVal]

\* The ids a fetch by label returns: the issues that are in the project.
ListedIds == {id \in DOMAIN issues : issues[id].listed}

\* A baseline entry that holds the remote issue as a fetch gives it.
RemoteBaseline(id) ==
  [task |-> RemoteTask(id), updatedAt |-> issues[id].updatedAt]

Succeeded == Has(last.ret, "success") /\ last.ret.success

----------------------------------------------------------------------------
(* C1 *)

\* C1: no public operation ever raises to its caller, whatever collaborator
\* call fails.
C1_NeverRaises == last # Idle => ~last.raised

----------------------------------------------------------------------------
(* C2 *)

\* C2: detectConflict(id) returns a conflict record if and only if a
\* baseline exists for id, the fresh fetch succeeds, the remote updatedAt
\* differs from the baseline's and at least one of status, title,
\* description, assignee differs between the baseline task and the fetched
\* task; changedFields is then exactly the set of differing fields.  With no
\* baseline it issues no remote call.
C2_DetectConflictIff ==
  Ran("detectConflict") =>
    LET id == last.id
        b == lastSyncedTasks[id]
        r == RemoteTask(id)
        diff == IF b = NoTask THEN {}
                ELSE {f \in WatchedFields : b.task[f] # r[f]}
        fetched == last.calls = <<CallGetIssue(id, TRUE)>>
    IN /\ (last.ret # NoTask) <=>
            /\ b # NoTask
            /\ fetched
            /\ issues[id].updatedAt # b.updatedAt
            /\ diff # {}
       /\ last.ret # NoTask =>
            /\ SeqToSet(last.ret.changedFields) = diff
            /\ Len(last.ret.changedFields) = Cardinality(diff)
            /\ last.ret.taskId = id
            /\ last.ret.localVersion = b.task
            /\ last.ret.remoteVersion = r
       /\ b = NoTask => last.calls = <<>>
       /\ lastSyncedTasks = last.pre.base /\ issues = last.pre.issues

C2_Witness ==
  /\ Ran("detectConflict")
  /\ last.ret # NoTask
  /\ "assignee" \in SeqToSet(last.ret.changedFields)

----------------------------------------------------------------------------
(* C3 *)

\* C3: after resolveConflict(id, r) on a detected conflict, for every r, the
\* baseline holds the chosen outcome: a detectConflict(id) issued right
\* afterwards, the remote untouched, reports no conflict.
C3_ResolvedNoLongerConflicted ==
  (Ran("resolveConflict") /\ last.conflict # NoTask) =>
    detectConflict(last.id, {}).ret = NoTask

----------------------------------------------------------------------------
(* C4 *)

\* C4: from the same engine and remote state with a detected conflict,
\* resolveConflict(id, 'merge') and resolveConflict(id, 'remote') return the
\* same task and leave the same cache entry and the same baseline entry.
C4_MergeIsRemote ==
  last = Idle =>
    \A id \in DOMAIN issues, fails \in FailSets(3) :
      detectConflict(id, fails).ret # NoTask =>
        LET m == resolveConflictEff(id, "merge", fails)
            r == resolveConflictEff(id, "remote", fails)
        IN /\ m.ret = r.ret
           /\ m.cache[id] = r.cache[id]
           /\ m.base[id] = r.base[id]

----------------------------------------------------------------------------
(* C5 *)

\* C5: resolveConflict(id, 'remote') on a detected conflict issues no remote
\* mutation, and leaves cache[id] and baseline[id].task equal to the freshly
\* fetched remote version and baseline[id].updatedAt equal to the remote
\* updatedAt; it returns that version.
C5_ResolveRemote ==
  (Ran("resolveConflict") /\ last.arg = "remote" /\ last.conflict # NoTask) =>
    LET id == last.id
    IN /\ MutationCalls(last.calls) = {}
       /\ issues = last.pre.issues
       /\ taskCache[id] = RemoteTask(id)
       /\ lastSyncedTasks[id] =
            [task |-> RemoteTask(id), updatedAt |-> issues[id].updatedAt]
       /\ last.ret = RemoteTask(id)
       /\ ~last.raised

C5_Witness ==
  /\ Ran("resolveConflict") /\ last.arg = "remote" /\ last.conflict # NoTask
  /\ last.pre.cache[last.id] # taskCache[last.id]

----------------------------------------------------------------------------
(* C6 *)

\* What resolveConflict 'local' must push: the id of a workflow state of the
\* type the baseline status translates to, and the baseline description.
C6_Carries(call, conflict) ==
  /\ call.input.stateId \in
       StateIdsOfType(ToRemoteType[conflict.localVersion.status])
  /\ call.input.description = conflict.localVersion.description
  /\ call.input.assigneeId = Absent

\* Cache and baseline of id hold the acknowledged record.
C6_Rebaselined(id) ==
  /\ taskCache[id] = AckTask(id)
  /\ lastSyncedTasks[id] =
       [task |-> AckTask(id), updatedAt |-> issues[id].updatedAt]

\* C6 as claimed: resolveConflict(id, 'local') on a detected conflict issues
\* exactly one remote update, carrying the workflow-state id for the
\* translated baseline status and the baseline description, and sets cache
\* and baseline to the acknowledged record only once it is acknowledged.
\* (Stated for the runs in which no fetch by the operation fails.)
C6_LocalPushesOnce ==
  ( /\ Ran("resolveConflict") /\ last.arg = "local" /\ last.conflict # NoTask
    /\ ~StatesFetchFailed(last.calls) ) =>
    LET id == last.id
        ups == UpdateCalls(last.calls)
    IN /\ NumUpdates(last.calls) = 1
       /\ \A c \in ups : C6_Carries(c, last.conflict)
       /\ IF \E c \in ups : c.ok
          THEN C6_Rebaselined(id)
          ELSE /\ taskCache[id] = last.pre.cache[id]
               /\ lastSyncedTasks[id] = last.pre.base[id]

\* C6 (amended): resolveConflict(id, 'local') on a detected conflict issues
\* at most one remote update, and exactly one when the workflow-state id for
\* the translated baseline status resolves (the team id is set, the states
\* are fetched or memoized, and the workflow has a state of that type); the
\* update carries that id and the baseline description.  Cache and baseline
\* are set to the acknowledged record if the update is acknowledged, and are
\* left as they were otherwise.
C6_LocalPushesWhenResolved ==
  (Ran("resolveConflict") /\ last.arg = "local" /\ last.conflict # NoTask) =>
    LET id == last.id
        ups == UpdateCalls(last.calls)
        resolves ==
          /\ teamId # ""
          /\ ~StatesFetchFailed(last.calls)
          /\ StateIdsOfType(ToRemoteType[last.conflict.localVersion.status]) # {}
    IN /\ NumUpdates(last.calls) = (IF resolves THEN 1 ELSE 0)
       /\ \A c \in ups : C6_Carries(c, last.conflict)
       /\ IF \E c \in ups : c.ok
          THEN C6_Rebaselined(id) /\ last.ret = AckTask(id)
          ELSE /\ taskCache[id] = last.pre.cache[id]
               /\ lastSyncedTasks[id] = last.pre.base[id]
               /\ issues = last.pre.issues

C6_Witness ==
  /\ Ran("resolveConflict") /\ last.arg = "local" /\ last.conflict # NoTask
  /\ \E c \in UpdateCalls(last.calls) : c.ok
  /\ last.pre.issues[last.id].description # issues[last.id].description

----------------------------------------------------------------------------
(* C7 *)

\* C7: when resolveConflict(id, r) detects no conflict it behaves as
\* getTask(id), for every r: no remote mutation, baseline unchanged, and the
\* cached task for id returned when there is one (else the task fetched by
\* id, which is then cached, or nothing when that fetch fails).
C7_NoConflictIsGetTask ==
  (Ran("resolveConflict") /\ last.conflict = NoTask) =>
    LET id == last.id
    IN /\ MutationCalls(last.calls) = {}
       /\ issues = last.pre.issues
       /\ lastSyncedTasks = last.pre.base
       /\ ~last.raised
       /\ IF last.pre.cache[id] # NoTask
          THEN last.ret = last.pre.cache[id] /\ taskCache = last.pre.cache
          ELSE \/ last.ret = NoTask /\ taskCache = last.pre.cache
               \/ /\ last.ret = RemoteTask(id)
                  /\ taskCache = [last.pre.cache EXCEPT ![id] = RemoteTask(id)]

\* No conflict although a baseline exists and the remote moved on, and a
\* cached task that is not the remote's current version.
C7_Witness ==
  /\ Ran("resolveConflict") /\ last.conflict = NoTask
  /\ last.pre.base[last.id] # NoTask
  /\ last.pre.cache[last.id] # NoTask
  /\ last.ret # RemoteTask(last.id)
  /\ last.ret = last.pre.cache[last.id]

----------------------------------------------------------------------------
(* C8 *)

\* C8: claimTask(id) issues one remote write, and it carries both the
\* viewer's assignee id and the id of a 'started' workflow state; when the
\* write succeeds cache[id] and baseline[id].task are the normalized result
\* and baseline[id].updatedAt its updatedAt; when it fails claimTask returns
\* undefined and leaves cache and baseline unchanged.  (One write: whenever
\* the plugin has a client and a viewer id and the state lookup returned.)
C8_ClaimWritesBoth ==
  Ran("claimTask") =>
    LET id == last.id
        ups == UpdateCalls(last.calls)
    IN /\ NumUpdates(last.calls) <= 1
       /\ (client /\ userId # "" /\ ~StatesFetchFailed(last.calls))
            => NumUpdates(last.calls) = 1
       /\ \A c \in ups : /\ c.input.assigneeId = ViewerId
                         /\ c.input.stateId \in StateIdsOfType("started")
       /\ IF \E c \in ups : c.ok
          THEN /\ taskCache[id] = AckTask(id)
               /\ lastSyncedTasks[id] =
                    [task |-> AckTask(id), updatedAt |-> issues[id].updatedAt]
               /\ last.ret = AckTask(id)
          ELSE /\ last.ret = NoTask
               /\ taskCache = last.pre.cache
               /\ lastSyncedTasks = last.pre.base

----------------------------------------------------------------------------
(* C9 *)

\* C9: whenever claimTask(id) returns a task, the remote task is assigned to
\* the viewer and is in a workflow state of type 'started', and the returned
\* and cached task has status in_progress, whatever the team's workflow.
C9_ClaimedIsInProgress ==
  (Ran("claimTask") /\ last.ret # NoTask) =>
    /\ issues[last.id].assignee = ViewerId
    /\ issues[last.id].state.type = "started"
    /\ last.ret.status = "in_progress"
    /\ taskCache[last.id].status = "in_progress"

----------------------------------------------------------------------------
(* C10 *)

\* The state type the last operation has to resolve, or NoVal if it has none
\* to resolve.
C10_RequiredType ==
  IF ~client THEN NoVal
  ELSE CASE last.op = "claimTask" -> IF userId = "" THEN NoVal ELSE "started"
         [] last.op = "completeTask" -> "completed"
         [] last.op = "updateTaskStatus" -> ToRemoteType[last.arg]
         [] last.op = "resolveConflict" ->
              IF last.arg = "local" /\ last.conflict # NoTask
              THEN ToRemoteType[last.conflict.localVersion.status]
              ELSE NoVal
         [] OTHER -> NoVal

\* C10: claimTask, completeTask, updateTaskStatus and resolveConflict 'local'
\* treat a team workflow that lacks the state type they need as a reported
\* failure: no remote mutation, cache and baseline unchanged, nothing raised,
\* and a failure result (completeTask: success = false with the message for a
\* missing state; the others: undefined).
C10_MissingStateReported ==
  ( /\ last # Idle
    /\ C10_RequiredType # NoVal
    /\ teamId # ""
    /\ ~StatesFetchFailed(last.calls)
    /\ StateIdsOfType(C10_RequiredType) = {} ) =>
    /\ MutationCalls(last.calls) = {}
    /\ issues = last.pre.issues
    /\ taskCache = last.pre.cache
    /\ lastSyncedTasks = last.pre.base
    /\ ~last.raised
    /\ IF last.op = "completeTask"
       THEN /\ last.ret.success = FALSE
            /\ last.ret.message = "Could not find completed state"
       ELSE last.ret = NoTask

----------------------------------------------------------------------------
(* C11 *)

\* C11: after every successful sync(), for every id in the fetched result,
\* cache[id] is the normalized fetched task, baseline[id].task is that same
\* task and baseline[id].updatedAt the remote updatedAt, whether the id was
\* classified added, updated or unchanged; the cache and baseline entries of
\* the ids absent from the fetch are left exactly as they were.
C11_SyncOverwrites ==
  (Ran("sync") /\ Succeeded) =>
    /\ last.calls = <<CallGetIssuesByLabel(TRUE)>>
    /\ issues = last.pre.issues
    /\ \A id \in TaskIds :
         IF id \in ListedIds
         THEN /\ taskCache[id] = RemoteTask(id)
              /\ lastSyncedTasks[id] = RemoteBaseline(id)
         ELSE /\ taskCache[id] = last.pre.cache[id]
              /\ lastSyncedTasks[id] = last.pre.base[id]

\* A sync that finds one fetched id cached at the remote's updatedAt
\* (unchanged) but without a baseline, and a cached id that is no longer
\* fetched.
C11_Witness ==
  /\ Ran("sync") /\ Succeeded
  /\ \E id \in ListedIds :
       /\ last.pre.cache[id] # NoTask
       /\ last.pre.cache[id].updatedAt = issues[id].updatedAt
       /\ last.pre.base[id] = NoTask
  /\ \E id \in DOMAIN issues \ ListedIds : taskCache[id] # NoTask

----------------------------------------------------------------------------
(* C12 *)

\* C12: a successful sync() reports added = the number of fetched ids that
\* had no cache entry immediately before the call and updated = the number
\* of fetched ids that had a cache entry of another updatedAt.  Hence a sync
\* on an empty cache reports every fetched id as added and none as updated,
\* and a sync that finds the cache as a sync of all the fetched ids left it
\* reports none added and as updated the ids whose updatedAt changed since.
C12_SyncCounts ==
  (Ran("sync") /\ Succeeded) =>
    LET new == {id \in ListedIds : last.pre.cache[id] = NoTask}
        moved == {id \in ListedIds :
                    /\ last.pre.cache[id] # NoTask
                    /\ last.pre.cache[id].updatedAt # issues[id].updatedAt}
        asSynced == \A id \in ListedIds :
                      /\ last.pre.base[id] # NoTask
                      /\ last.pre.cache[id] = last.pre.base[id].task
    IN /\ last.ret.added = Cardinality(new)
       /\ last.ret.updated = Cardinality(moved)
       /\ (\A id \in TaskIds : last.pre.cache[id] = NoTask) =>
            /\ last.ret.added = Cardinality(ListedIds)
            /\ last.ret.updated = 0
       /\ asSynced =>
            /\ last.ret.added = 0
            /\ last.ret.updated =
                 Cardinality({id \in ListedIds :
                                last.pre.base[id].updatedAt # issues[id].updatedAt})

\* A second sync of two tasks of which exactly one changed.
C12_Witness ==
  /\ Ran("sync") /\ Succeeded
  /\ Cardinality(ListedIds) = 2
  /\ \A id \in ListedIds : last.pre.base[id] # NoTask
  /\ last.ret.added = 0
  /\ last.ret.updated = 1

----------------------------------------------------------------------------
(* C13 *)

\* The last operation wrote the task back to the remote and reported success.
C13_WroteBack ==
  /\ last # Idle
  /\ \E c \in UpdateCalls(last.calls) : c.ok
  /\ ~last.raised
  /\ CASE last.op = "claimTask" -> last.ret # NoTask
       [] last.op = "completeTask" -> Succeeded
       [] last.op = "updateTaskStatus" -> last.ret # NoTask
       [] last.op = "resolveConflict" -> last.arg = "local" /\ last.conflict # NoTask
       [] OTHER -> FALSE

\* C13: after any successful claimTask, completeTask, updateTaskStatus or
\* resolveConflict 'local' on id, baseline[id] holds the version acknowledged
\* by that write.
C13_BaselineFollowsWrite ==
  C13_WroteBack =>
    lastSyncedTasks[last.id] =
      [task |-> AckTask(last.id), updatedAt |-> issues[last.id].updatedAt]

----------------------------------------------------------------------------
(* C14 *)

BaselineWriters == {"sync", "claimTask", "resolveConflict", "dispose"}

\* C14: completeTask, updateTaskStatus, getTasks, getTask, getNextTask,
\* isComplete, isTaskReady, getEpics and detectConflict never modify the
\* baseline store, whether they succeed or fail; only sync, claimTask,
\* resolveConflict and dispose write it.
C14_BaselineFrame ==
  /\ (last # Idle /\ last.op \in {"completeTask", "updateTaskStatus", "getTasks",
                                  "getTask", "getNextTask", "isComplete",
                                  "isTaskReady", "getEpics", "detectConflict"})
       => lastSyncedTasks = last.pre.base
  /\ (last # Idle /\ lastSyncedTasks # last.pre.base)
       => last.op \in BaselineWriters

\* A status update the remote acknowledged, of a task that has a baseline:
\* the baseline stays behind the acknowledged version.
C14_Witness ==
  /\ Ran("updateTaskStatus")
  /\ last.ret # NoTask
  /\ last.pre.base[last.id] # NoTask
  /\ lastSyncedTasks[last.id].task # taskCache[last.id]

----------------------------------------------------------------------------
(* C15 *)

CachedIds == {id \in TaskIds : taskCache[id] # NoTask}
BaselinedIds == {id \in TaskIds : lastSyncedTasks[id] # NoTask}

\* No step other than dispose takes an id out of the cache or out of the
\* baseline store.
C15_Grows ==
  (last' = Idle \/ last'.op # "dispose") =>
    /\ CachedIds \subseteq CachedIds'
    /\ BaselinedIds \subseteq BaselinedIds'

\* C15: between engine start and dispose() no operation removes an entry
\* from the cache or from the baseline store, so the sets of cached and of
\* baselined ids only grow; and getTask returns the cached entry of an id
\* whatever the remote returns by then.
C15_NoEviction ==
  /\ [][C15_Grows]_vars
  /\ []((Ran("getTask") /\ last.pre.cache[last.id] # NoTask)
          => (last.ret = last.pre.cache[last.id] /\ last.ret = taskCache[last.id]))

\* getTask of a cached id that the remote has stopped returning, after a
\* fetch that no longer had it.
C15_Witness ==
  /\ Ran("getTask")
  /\ last.id \notin ListedIds
  /\ last.ret # NoTask
  /\ last.ret.updatedAt < issues[last.id].updatedAt

----------------------------------------------------------------------------
(* C16 *)

\* C16: getTask(id) returns the cached entry without any remote call when id
\* is cached.  When id is not cached, the plugin holding a client, it
\* performs one remote fetch by id: on success it stores the normalized task
\* in the cache, returns it and leaves the baseline for id unset; on failure
\* it returns undefined and leaves the cache unchanged.
C16_GetTask ==
  Ran("getTask") =>
    LET id == last.id
    IN /\ issues = last.pre.issues
       /\ lastSyncedTasks = last.pre.base
       /\ ~last.raised
       /\ IF last.pre.cache[id] # NoTask
          THEN /\ last.calls = <<>>
               /\ last.ret = last.pre.cache[id]
               /\ taskCache = last.pre.cache
          ELSE IF client
          THEN \/ /\ last.calls = <<CallGetIssue(id, TRUE)>>
                  /\ last.ret = RemoteTask(id)
                  /\ taskCache = [last.pre.cache EXCEPT ![id] = RemoteTask(id)]
                  /\ lastSyncedTasks[id] = NoTask
               \/ /\ last.calls = <<CallGetIssue(id, FALSE)>>
                  /\ last.ret = NoTask
                  /\ taskCache = last.pre.cache
          ELSE /\ last.calls = <<>>
               /\ last.ret = NoTask
               /\ taskCache = last.pre.cache

\* A fetch by id of an uncached task, after the remote issue was edited.
C16_Witness ==
  /\ Ran("getTask")
  /\ last.pre.cache[last.id] = NoTask
  /\ last.ret # NoTask
  /\ last.ret.updatedAt > 0
  /\ taskCache[last.id] = last.ret
  /\ lastSyncedTasks[last.id] = NoTask

----------------------------------------------------------------------------
(* C17 *)

\* The ids of the current remote fetch, in the order of the fetch.
FetchOrder ==
  LET Listed(id) == id \in ListedIds IN SelectSeq(<<"i1", "i2">>, Listed)

\* The task satisfies every criterion of the filter other than pagination.
Meets(f, t) ==
  /\ Has(f, "status") => t.status \in f.status
  /\ Has(f, "priority") => t.priority \in f.priority
  /\ Has(f, "excludeIds") => t.id \notin f.excludeIds

\* The filter applied to the current remote tasks: the tasks that meet it, in
\* fetch order, from position offset + 1 on and at most limit of them.
FilteredFetch(f) ==
  LET Ok(id) == Meets(f, RemoteTask(id))
      ids == SelectSeq(FetchOrder, Ok)
      from == IF Has(f, "offset") THEN f.offset ELSE 0
      upto == IF Has(f, "limit") /\ from + f.limit < Len(ids)
              THEN from + f.limit ELSE Len(ids)
  IN [i \in 1..(IF upto > from THEN upto - from ELSE 0) |->
        RemoteTask(ids[from + i])]

FetchedByLabel == last.calls = <<CallGetIssuesByLabel(TRUE)>>

\* C17: a successful getTasks(filter) overwrites the cache entry of every id
\* in the fetched result, the ids the filter excludes included, with the
\* whole normalized task, and returns exactly the filter applied to the
\* freshly fetched tasks: no stale cache entry of an id the remote no longer
\* returns is in the returned list.
C17_GetTasksRefreshes ==
  (Ran("getTasks") /\ FetchedByLabel) =>
    /\ \A id \in TaskIds :
         taskCache[id] = IF id \in ListedIds THEN RemoteTask(id)
                         ELSE last.pre.cache[id]
    /\ last.ret = FilteredFetch(last.arg)
    /\ \A i \in 1..Len(last.ret) : last.ret[i].id \in ListedIds
    /\ lastSyncedTasks = last.pre.base
    /\ issues = last.pre.issues

\* A getTasks whose filter leaves out a fetched task whose stale cache entry
\* it replaces, while another cached task is no longer fetched.
C17_Witness ==
  /\ Ran("getTasks") /\ FetchedByLabel
  /\ \E id \in ListedIds :
       /\ \A i \in 1..Len(last.ret) : last.ret[i].id # id
       /\ last.pre.cache[id] # NoTask
       /\ last.pre.cache[id] # taskCache[id]
  /\ \E id \in DOMAIN issues \ ListedIds : taskCache[id] # NoTask

----------------------------------------------------------------------------
(* C18 *)

\* The ids getNextTask(f) may return: in the current remote fetch, of status
\* open or in_progress, ready (no task of the tracker has dependencies), not
\* in excludeIds and meeting the other criteria of f; the status f names
\* does not count.
Eligible(f) ==
  {id \in ListedIds :
     /\ RemoteTask(id).status \in {"open", "in_progress"}
     /\ Has(f, "excludeIds") => id \notin f.excludeIds
     /\ Has(f, "priority") => RemoteTask(id).priority \in f.priority}

EligibleInProgress(f) ==
  {id \in Eligible(f) : RemoteTask(id).status = "in_progress"}

\* C18: getNextTask(filter), its fetch succeeding, only ever returns a task
\* that is eligible; if an eligible task is in_progress the returned task is
\* in_progress, even when an open task has a lower priority number; it
\* returns none exactly when no eligible task exists.
C18_NextTaskEligible ==
  (Ran("getNextTask") /\ FetchedByLabel) =>
    /\ last.ret # NoTask =>
         /\ last.ret.id \in Eligible(last.arg)
         /\ last.ret = RemoteTask(last.ret.id)
    /\ EligibleInProgress(last.arg) # {} =>
         /\ last.ret # NoTask
         /\ last.ret.status = "in_progress"
    /\ (last.ret = NoTask) <=> (Eligible(last.arg) = {})

----------------------------------------------------------------------------
(* C19 *)

\* Position of an id in the fetch.
FetchIndex(id) == CHOOSE i \in 1..Len(FetchOrder) : FetchOrder[i] = id

\* C19: when no eligible task is in_progress, getNextTask(filter) returns a
\* task whose priority number is minimal among the eligible (open) tasks,
\* the first of them in fetch order; for every filter, the ones that set
\* offset or limit included.
C19_NextTaskMinimal ==
  ( /\ Ran("getNextTask") /\ FetchedByLabel
    /\ EligibleInProgress(last.arg) = {}
    /\ Eligible(last.arg) # {} ) =>
    /\ last.ret # NoTask
    /\ last.ret.id \in Eligible(last.arg)
    /\ \A id \in Eligible(last.arg) :
         \/ last.ret.priority < RemoteTask(id).priority
         \/ /\ last.ret.priority = RemoteTask(id).priority
            /\ FetchIndex(last.ret.id) <= FetchIndex(id)

----------------------------------------------------------------------------
(* C20 *)

StoresEmpty ==
  /\ \A id \in TaskIds : taskCache[id] = NoTask /\ lastSyncedTasks[id] = NoTask
  /\ \A t \in TeamIds : stateCache[t] = NoTask

----------------------------------------------------------------------------
(* C21 *)

\* What an operation returns when it has nothing to give or reports failure.
C21_EmptyResult ==
  CASE last.op \in {"getTasks", "getEpics"} -> last.ret = <<>>
    [] last.op \in {"getNextTask", "getTask", "detectConflict", "claimTask",
                    "updateTaskStatus", "resolveConflict"} -> last.ret = NoTask
    [] last.op \in {"completeTask", "sync"} ->
         Has(last.ret, "success") /\ last.ret.success = FALSE
    [] OTHER -> TRUE

----------------------------------------------------------------------------
(* C22 *)

\* C22: isComplete(filter) returns true exactly when every task of the
\* remote task set that matches the filter has status completed or
\* cancelled, in every engine state, the ones in which the plugin is not
\* ready or the remote fetch fails included.
C22_IsCompleteExact ==
  Ran("isComplete") =>
    (last.ret <=>
       \A id \in ListedIds :
         Meets(last.arg, RemoteTask(id)) =>
           RemoteTask(id).status \in {"completed", "cancelled"})

----------------------------------------------------------------------------
(* C23 *)

\* The id of the first state of the list that has the type, or NoVal.
FirstStateId(list, type) ==
  LET at == {i \in 1..Len(list) : list[i].type = type}
  IN IF at = {} THEN NoVal
     ELSE list[CHOOSE i \in at : \A j \in at : i <= j].id

StateFetches(calls) == {j \in 1..Len(calls) : calls[j].kind = "getStates"}

\* A step of an operation other than initialize and dispose: it fetches the
\* workflow states at most once and not at all when the team's list is
\* memoized, it memoizes exactly the list a successful fetch returned and
\* never replaces a memoized list, and a state id it sends is the id of the
\* first state of the memoized list that has the type it needs.
C23_Step ==
  (last' # Idle /\ last'.op \notin {"initialize", "dispose"}) =>
    LET fetches == StateFetches(last'.calls)
        memoized == teamId # "" /\ stateCache[teamId] # NoTask
        fetched == \E j \in fetches : last'.calls[j].ok
    IN /\ Cardinality(fetches) <= 1
       /\ memoized => (fetches = {} /\ stateCache' = stateCache)
       /\ IF fetched
          THEN stateCache' = [stateCache EXCEPT ![teamId] = [list |-> workflow]]
          ELSE stateCache' = stateCache
       /\ \A c \in UpdateCalls(last'.calls) :
            (C10_RequiredType)' # NoVal =>
              c.input.stateId =
                IF teamId # "" /\ stateCache'[teamId] # NoTask
                THEN FirstStateId(stateCache'[teamId].list, (C10_RequiredType)')
                ELSE NoVal

\* C23: the workflow-state list of a team is fetched at most once between
\* engine start and dispose(): once it is memoized every findStateByType is
\* answered from the memo with no remote call, whatever the remote workflow
\* has become, and returns the id of the first state of the memoized list
\* whose type matches, or not-found.
C23_MemoizedOnce == [][C23_Step]_vars

\* A status update that sends the state id of the memoized list after the
\* workflow was reconfigured to one whose first state of that type is
\* another.
C23_Witness ==
  /\ Ran("updateTaskStatus")
  /\ teamId # "" /\ stateCache[teamId] # NoTask
  /\ stateCache[teamId].list # workflow
  /\ StateFetches(last.calls) = {}
  /\ \E c \in UpdateCalls(last.calls) :
       /\ c.ok
       /\ c.input.stateId # FirstStateId(workflow, ToRemoteType[last.arg])

----------------------------------------------------------------------------
(* C25 *)

\* The ids of the backlog states of the workflows a team may have.
BacklogStateIds ==
  {w[i].id : <<w, i>> \in {<<v, j>> \in (TeamWorkflows \cup Workflows) \X (1..5) :
                              j <= Len(v) /\ v[j].type = "backlog"}}

\* C25: toRemoteType maps open to unstarted, in_progress and blocked to
\* started, completed to completed and cancelled to canceled, and never
\* yields backlog; no remote update issued by updateTaskStatus or
\* resolveConflict 'local' targets a backlog-type workflow state.
C25_NeverBacklog ==
  /\ \A s \in TrackerTaskStatus :
       /\ mapStatusToStateType(s) = ToRemoteType[s]
       /\ mapStatusToStateType(s) \in LinearStateType \ {"backlog"}
  /\ (last # Idle /\ last.op \in {"updateTaskStatus", "resolveConflict"}) =>
       \A c \in UpdateCalls(last.calls) :
         /\ c.input.stateId \notin BacklogStateIds
         /\ c.ok => issues[c.id].state.type # "backlog"

\* updateTaskStatus(id, 'open') of an issue in the backlog state of a
\* workflow that lists the backlog state first: the issue leaves the backlog.
C25_Witness ==
  /\ Ran("updateTaskStatus")
  /\ last.arg = "open"
  /\ last.pre.issues[last.id].state.type = "backlog"
  /\ \E c \in UpdateCalls(last.calls) : c.ok
  /\ issues[last.id].state.type = "unstarted"

----------------------------------------------------------------------------
(* C24 *)

\* C24: toUnifiedStatus maps backlog and unstarted to open, started to
\* in_progress, completed to completed, canceled to cancelled, and every
\* input it does not recognize to open.
C24_ToUnifiedStatus ==
  Ran("mapStateToStatus") =>
    last.ret = (CASE last.arg = "started" -> "in_progress"
                  [] last.arg = "completed" -> "completed"
                  [] last.arg = "canceled" -> "cancelled"
                  [] OTHER -> "open")

C24_Witness ==
  /\ Ran("mapStateToStatus")
  /\ last.arg \notin LinearStateType
  /\ last.ret = "open"

----------------------------------------------------------------------------
(* C26 *)

\* C26: mapPriority maps 0 to 2 and every other integer p to p - 1 clamped
\* into 0..4; the result lies in 0..4 for every integer input.
C26_MapPriority ==
  Ran("mapPriority") =>
    /\ last.ret \in 0..4
    /\ last.arg = 0 => last.ret = 2
    /\ last.arg \in 1..5 => last.ret = last.arg - 1
    /\ last.arg < 0 => last.ret = 0
    /\ last.arg > 5 => last.ret = 4

C26_Witness ==
  /\ Ran("mapPriority")
  /\ last.arg > 5
  /\ last.ret = 4

----------------------------------------------------------------------------
(* C27 *)

\* The task is ready in the set: each of its dependencies either names no
\* task of the set or names a task that is completed or cancelled.
IsReadyIn(task, all) ==
  \A dep \in (IF Has(task, "dependsOn") THEN SeqToSet(task.dependsOn) ELSE {}) :
    \A i \in 1..Len(all) :
      all[i].id = dep => all[i].status \in {"completed", "cancelled"}

\* C27: a task is ready if and only if every id in its dependsOn either
\* matches no task in the supplied set or matches a task that is completed
\* or cancelled; with empty or absent dependsOn it is always ready.
C27_Ready ==
  Ran("checkTaskReady") =>
    /\ last.ret <=> IsReadyIn(last.arg.task, last.arg.allTasks)
    /\ ~Has(last.arg.task, "dependsOn") => last.ret
    /\ (Has(last.arg.task, "dependsOn") /\ last.arg.task.dependsOn = <<>>) => last.ret

\* Ready although one dependency is absent from the set, the other being
\* cancelled.
C27_Witness ==
  /\ Ran("checkTaskReady")
  /\ Has(last.arg.task, "dependsOn")
  /\ Len(last.arg.task.dependsOn) = 2
  /\ Len(last.arg.allTasks) = 1
  /\ last.ret

----------------------------------------------------------------------------
(* C28 *)

\* The task satisfies every criterion the filter supplies, pagination aside;
\* all: the collection the filter is applied to.
Satisfies(f, t, all) ==
  /\ Has(f, "status") => t.status \in f.status
  /\ Has(f, "labels") => \A l \in f.labels : \E i \in 1..Len(t.labels) : t.labels[i] = l
  /\ Has(f, "priority") => t.priority \in f.priority
  /\ Has(f, "type") => t.type \in f.type
  /\ Has(f, "parentId") => t.parentId = f.parentId
  /\ Has(f, "assignee") => t.assignee = f.assignee
  /\ Has(f, "excludeIds") => t.id \notin f.excludeIds
  /\ (Has(f, "ready") /\ f.ready) => IsReadyIn(t, all)

\* The order-preserving subsequence of the collection that satisfies f.
Passing(f, all) ==
  LET Ok(t) == Satisfies(f, t, all) IN SelectSeq(all, Ok)

Paginates(f) == Has(f, "offset") \/ Has(f, "limit")

\* C28: filterTasks returns exactly the tasks that satisfy all supplied
\* criteria together, a status, priority or type list being satisfied by any
\* listed value and a labels list only by a task carrying every listed
\* label; an absent filter returns the collection unchanged.  (Of a filter
\* that paginates, the returned tasks all satisfy the criteria.)
C28_FilterIsConjunction ==
  Ran("filterTasks") =>
    LET f == last.arg.filter
        all == last.arg.tasks
    IN /\ f = NoFilter => last.ret = all
       /\ ~Paginates(f) => last.ret = Passing(f, all)
       /\ \A i \in 1..Len(last.ret) : Satisfies(f, last.ret[i], all)

\* The example of the specification: status open or in_progress and the
\* label urgent, over tasks of which one passes and two fail one criterion
\* each.
C28_Witness ==
  /\ Ran("filterTasks")
  /\ last.arg.filter = [status |-> {"open", "in_progress"}, labels |-> {"urgent"}]
  /\ Len(last.arg.tasks) = 3
  /\ Len(last.ret) = 1

----------------------------------------------------------------------------
(* C29 *)

Drop(seq, n) == [i \in 1..(IF Len(seq) > n THEN Len(seq) - n ELSE 0) |-> seq[n + i]]
Take(seq, n) == [i \in 1..(IF Len(seq) > n THEN n ELSE Len(seq)) |-> seq[i]]

\* The input's position of each returned task increases along the result.
InInputOrder(ret, all) ==
  \A i, j \in 1..Len(ret) :
    i < j => \E a, b \in 1..Len(all) : a < b /\ all[a] = ret[i] /\ all[b] = ret[j]

\* C29 as claimed: the result of filterTasks is the order-preserving
\* subsequence of the input that passes every predicate, readiness judged
\* against the full input, with the first `offset` elements dropped and then
\* truncated to at most `limit` elements; it never contains an excluded id
\* and never reorders tasks.
C29_PaginatesLast ==
  Ran("filterTasks") =>
    LET f == last.arg.filter
        all == last.arg.tasks
        dropped == IF Has(f, "offset") THEN Drop(Passing(f, all), f.offset)
                   ELSE Passing(f, all)
    IN /\ last.ret = IF Has(f, "limit") THEN Take(dropped, f.limit) ELSE dropped
       /\ Has(f, "excludeIds") =>
            \A i \in 1..Len(last.ret) : last.ret[i].id \notin f.excludeIds
       /\ InInputOrder(last.ret, all)

\* C29 (amended): as claimed, for a limit that is positive; a limit that is
\* not positive truncates nothing.
C29_PaginatesLastPositive ==
  Ran("filterTasks") =>
    LET f == last.arg.filter
        all == last.arg.tasks
        dropped == IF Has(f, "offset") THEN Drop(Passing(f, all), f.offset)
                   ELSE Passing(f, all)
    IN /\ last.ret = IF Has(f, "limit") /\ f.limit > 0
                     THEN Take(dropped, f.limit) ELSE dropped
       /\ Has(f, "excludeIds") =>
            \A i \in 1..Len(last.ret) : last.ret[i].id \notin f.excludeIds
       /\ InInputOrder(last.ret, all)

\* A task that is not ready because of a task its filter's other criteria
\* leave out, with readiness and a limit in one filter.
C29_Witness ==
  /\ Ran("filterTasks")
  /\ last.arg.filter = [ready |-> TRUE, limit |-> 1]
  /\ Len(last.arg.tasks) = 3
  /\ Len(Passing(last.arg.filter, last.arg.tasks)) = 2
  /\ Len(last.ret) = 1

----------------------------------------------------------------------------
(* C30 *)

FrameOps ==
  {"getTasks", "getTask", "sync", "claimTask", "completeTask",
   "updateTaskStatus", "detectConflict", "resolveConflict"}

\* A collaborator call of the operation failed, or the operation made none
\* because it was rejected on entry.
CallFailed == last.calls = <<>> \/ \E i \in 1..Len(last.calls) : ~last.calls[i].ok

\* The operation ended in failure: it raised, or it returned success=false,
\* undefined, null or an empty list after a collaborator call failed or the
\* operation was rejected.
EndedInFailure ==
  /\ last # Idle
  /\ last.op \in FrameOps
  /\ \/ last.raised
     \/ last.op \in {"sync", "completeTask"} /\ ~last.ret.success
     \/ last.op = "getTasks" /\ last.ret = <<>> /\ CallFailed
     \/ /\ last.op \notin {"sync", "completeTask", "getTasks"}
        /\ last.ret = NoTask
        /\ CallFailed

----------------------------------------------------------------------------
(* C31 *)

\* C31: every id that has a baseline entry has a cache entry, and every
\* baseline entry is self-consistent: its updatedAt is its task's updatedAt
\* and its task's id is the id it is stored under.
C31_BaselineConsistent ==
  \A id \in TaskIds :
    lastSyncedTasks[id] # NoTask =>
      /\ taskCache[id] # NoTask
      /\ lastSyncedTasks[id].updatedAt = lastSyncedTasks[id].task.updatedAt
      /\ lastSyncedTasks[id].task.id = id

\* A baseline that claimTask wrote while the cache had no entry for the id,
\* after the remote record had been edited.
C31_Witness ==
  /\ Ran("claimTask")
  /\ last.pre.cache[last.id] = NoTask
  /\ lastSyncedTasks[last.id] # NoTask
  /\ lastSyncedTasks[last.id].updatedAt > 0

----------------------------------------------------------------------------
(* C32 *)

\* The tasks the last operation returned.
ReturnedTasks ==
  IF last = Idle \/ last.raised THEN {}
  ELSE IF last.op \in {"getTask", "getNextTask", "claimTask", "updateTaskStatus",
                       "resolveConflict"}
  THEN (IF last.ret = NoTask THEN {} ELSE {last.ret})
  ELSE IF last.op \in {"getTasks", "getEpics"} THEN SeqToSet(last.ret)
  ELSE IF last.op = "completeTask"
  THEN (IF last.ret.success THEN {last.ret.task} ELSE {})
  ELSE IF last.op = "detectConflict"
  THEN (IF last.ret = NoTask THEN {}
        ELSE {last.ret.localVersion, last.ret.remoteVersion})
  ELSE {}

\* The tasks the cache and the baseline store hold.
StoredTasks ==
  {taskCache[id] : id \in {i \in TaskIds : taskCache[i] # NoTask}}
    \cup {lastSyncedTasks[id].task : id \in {i \in TaskIds : lastSyncedTasks[i] # NoTask}}

\* C32: no task in the cache or in a baseline and no task an operation
\* returns has status blocked; a successful updateTaskStatus(id, 'blocked')
\* returns and caches a task that is in_progress, and a successful
\* updateTaskStatus(id, s) for any other s a task of status s.
C32_NeverBlocked ==
  /\ \A t \in StoredTasks \cup ReturnedTasks : t.status # "blocked"
  /\ (Ran("updateTaskStatus") /\ last.ret # NoTask) =>
       /\ last.ret.status = IF last.arg = "blocked" THEN "in_progress" ELSE last.arg
       /\ taskCache[last.id] = last.ret

C32_Witness ==
  /\ Ran("updateTaskStatus")
  /\ last.arg = "blocked"
  /\ last.ret # NoTask
  /\ last.pre.issues[last.id].state.type # "started"
  /\ taskCache[last.id].status = "in_progress"

----------------------------------------------------------------------------
(* C33 *)

\* C33: with no edit of the remote record by anyone but the engine,
\* detectConflict(id) after sync() and any number of successful
\* completeTask(id) / updateTaskStatus(id, s) returns no conflict.
C33_OwnWritesNoConflict == Ran("detectConflict") => last.ret = NoTask

----------------------------------------------------------------------------
(* C34 *)

\* C34: with no edit of the remote record by anyone but the engine, a
\* resolveConflict(id, r) that finds the task in the completed state
\* completeTask(id) put it in leaves it in that state.
C34_CompletionNotReverted ==
  (Ran("resolveConflict") /\ last.pre.issues[last.id].state.type = "completed")
    => issues[last.id].state.type = "completed"

----------------------------------------------------------------------------
(* C35 *)

\* C35: completeTask(id, reason) reports success and caches the acknowledged
\* task whenever the remote accepted the update to the completed state,
\* whatever the reason and whatever becomes of the comment; a result of
\* success = false means this call did not change the remote task's state.
C35_AcceptedMeansSuccess ==
  Ran("completeTask") =>
    /\ (\E c \in UpdateCalls(last.calls) : c.ok) =>
         (Succeeded /\ taskCache[last.id] = AckTask(last.id))
    /\ ~Succeeded => issues[last.id].state = last.pre.issues[last.id].state

----------------------------------------------------------------------------
(* C36 *)

\* The latest change of the remote record is a claim by this engine (nobody
\* else edits the remote while operations are in flight).
ClaimIsLatest(id) == issues[id].updatedAt > 0 /\ issues[id].assignee = ViewerId

\* C36: when sync() or getTasks() ran concurrently with claimTask(id) and all
\* of them have completed, the cache entry and the baseline of id hold the
\* claimed version if the claim was the later remote event: the cache does
\* not end up with an older version of the remote record.
C36_ClaimSurvives ==
  \A id \in DOMAIN issues :
    (pending = {} /\ ClaimIsLatest(id)) =>
      /\ taskCache[id] # NoTask => taskCache[id].updatedAt = issues[id].updatedAt
      /\ lastSyncedTasks[id] # NoTask =>
           lastSyncedTasks[id].updatedAt = issues[id].updatedAt

----------------------------------------------------------------------------
(* C37 *)

\* C37: once dispose() has returned, the cache and the baseline store stay
\* empty until initialize is called again, also when an operation that was
\* awaiting a remote response at the disposal goes on afterwards; and that
\* operation does not raise.
C37_DisposedStaysEmpty ==
  /\ ~client =>
       \A id \in TaskIds : taskCache[id] = NoTask /\ lastSyncedTasks[id] = NoTask
  /\ last # Idle => ~last.raised

----------------------------------------------------------------------------
(* C38 *)

\* C38: while the engine is not ready, which it is after an initialize()
\* whose viewer verification failed, no operation issues a remote mutation
\* or populates the cache: completeTask, updateTaskStatus, claimTask and
\* resolveConflict report failure, getTasks returns an empty list and sync a
\* failure.
C38_NotReadyIsInert ==
  (last # Idle /\ ~ready /\ last.op \notin {"initialize", "dispose"}) =>
    /\ MutationCalls(last.calls) = {}
    /\ taskCache = last.pre.cache
    /\ last.op \in {"completeTask", "sync"} => ~last.ret.success
    /\ last.op \in {"updateTaskStatus", "claimTask", "resolveConflict"} =>
         last.ret = NoTask
    /\ last.op = "getTasks" => last.ret = <<>>

====
